---- MODULE Spec2Model ----
(***************************************************************************)
(* A model of aptblob: the Debian control-file codec (package deb), the    *)
(* Release signature lists, package deduplication, the index update pass,  *)
(* the upload and init commands, and two uploads running at once.          *)
(* Text is modelled as sequences of one-character strings, so that  *)
(* parsing and serialising are computed, character by character, the way   *)
(* the Go code computes them.  Go's 0-based half-open slices text[i:j] are  *)
(* written Slice(text, i, j) and keep the indices of the source.           *)
(***************************************************************************)
EXTENDS Integers, Sequences, FiniteSets, TLC

VARIABLES
    mode,        \* which part of the program the behaviour exercises
    input,       \* codec: the bytes handed to NewParser
    fields,      \* codec: Parser.Fields, the name -> FieldType mapping
    parser,      \* codec: the Parser (scan = unread input, lineno, para, err)
    paragraphs,  \* codec: the paragraphs collected by the caller's Next loop
    ret,         \* codec: what the last call returned: "none", "true" or "false"
    release,     \* the Release paragraph held in memory
    orig,        \* release as it was before the first call
    prev,        \* release as it was before the last call
    batch,       \* the new entries handed to the last call (newSigs, newParagraphs)
    earlier,     \* merge: the newSigs of the calls before the last, in order
    calls,       \* the number of calls made so far, counted up to MaxCalls
    err,         \* the error the last call returned (NoErr for nil)
    packages,    \* dedupe: the slice handed to dedupePackages
    deduped,     \* dedupe: what dedupePackages returned (err, packages)
    bucket,      \* the blob bucket: key -> stored bytes, for the keys that exist
    before,      \* the bucket as it was before the last call
    log,         \* the calls made so far: newParagraphs, fault and error of each
    procs        \* race: the upload commands running at once, each with its position

codecVars == <<input, fields, parser, paragraphs, ret>>

sigVars == <<release, orig, prev, batch, earlier, calls, err>>

storeVars == <<packages, deduped, bucket, before, log, procs>>

vars == <<mode, input, fields, parser, paragraphs, ret, release, orig, prev, batch, earlier,
          calls, err, packages, deduped, bucket, before, log, procs>>

----------------------------------------------------------------------------
(* Characters and the string primitives of the Go standard library.        *)

NL == "\n"
TAB == "\t"
SP == " "

\* s[i:j] of Go
Slice(s, i, j) == SubSeq(s, i + 1, j)

\* strings.IndexByte / bytes.IndexByte: 0-based index of the first c, or -1
IndexByte(s, c) ==
    IF \E k \in 1..Len(s) : s[k] = c
    THEN (CHOOSE k \in 1..Len(s) : s[k] = c /\ \A j \in 1..(k - 1) : s[j] # c) - 1
    ELSE -1

\* strings.Trim(s, cutset)
Trim(s, cutset) ==
    IF \A k \in 1..Len(s) : s[k] \in cutset
    THEN <<>>
    ELSE LET lo == CHOOSE k \in 1..Len(s) :
                       s[k] \notin cutset /\ \A j \in 1..(k - 1) : s[j] \in cutset
             hi == CHOOSE k \in 1..Len(s) :
                       s[k] \notin cutset /\ \A j \in (k + 1)..Len(s) : s[j] \in cutset
         IN SubSeq(s, lo, hi)

\* strings.HasPrefix(s, prefix)
HasPrefix(s, prefix) == Len(s) >= Len(prefix) /\ SubSeq(s, 1, Len(prefix)) = prefix

\* strings.TrimPrefix(s, prefix)
TrimPrefix(s, prefix) ==
    IF HasPrefix(s, prefix) THEN SubSeq(s, Len(prefix) + 1, Len(s)) ELSE s

\* strings.ReplaceAll(s, "\n", "")
RemoveNL(s) == SelectSeq(s, LAMBDA c : c # NL)

RECURSIVE Concat(_)
\* the concatenation of a sequence of strings
Concat(ss) == IF Len(ss) = 0 THEN <<>> ELSE Head(ss) \o Concat(Tail(ss))

----------------------------------------------------------------------------
(* package deb: the control-file parser.                                   *)

Simple == 0
Multiline == 1
Folded == 2

\* p.Fields[name]: a Go map yields the zero value, Simple, for a missing key
FieldTypeOf(Fields, name) ==
    IF name \in DOMAIN Fields THEN Fields[name] ELSE Simple

NoErr == [kind |-> "nil", line |-> 0]

Err(kind, line) == [kind |-> kind, line |-> line]

\* isEmptyLine holding for the empty line only
isEmptyLine_OnlyEmpty(line) == Len(line) = 0

isEmptyLine(line) == \A k \in 1..Len(line) : line[k] \in {SP, TAB, NL}

NoToken == [set |-> FALSE, data |-> <<>>]

RECURSIVE splitLoop(_, _, _, _)
\* The split function NewParser installs, called at end of input: one run of
\* its loop from `advance`, returning advance, token and the updated lineno.
splitLoop(data, advance, token, lineno) ==
    IF advance >= Len(data)
    THEN [advance |-> advance, token |-> token, lineno |-> lineno]
    ELSE LET i == IndexByte(Slice(data, advance, Len(data)), NL)
             line == IF i # -1 THEN Slice(data, advance, advance + i)
                     ELSE Slice(data, advance, Len(data))
             adv == IF i # -1 THEN advance + i + 1 ELSE Len(data)
         IN IF isEmptyLine(line)
            THEN [advance |-> adv, token |-> token,
                  lineno |-> IF token.set THEN lineno ELSE lineno + 1]
            ELSE splitLoop(data, adv,
                           [set |-> TRUE, data |-> Slice(data, 0, advance + Len(line))],
                           lineno)

RECURSIVE Scan(_, _)
\* One call r of the split function on the unread input, as Scan handles it
scanSplit(data, r) ==
    IF r.token.set
    THEN [ok |-> TRUE, text |-> r.token.data,
          rest |-> Slice(data, r.advance, Len(data)), lineno |-> r.lineno]
    ELSE IF r.advance = 0
    THEN [ok |-> FALSE, text |-> <<>>, rest |-> data, lineno |-> r.lineno]
    ELSE Scan(Slice(data, r.advance, Len(data)), r.lineno)

\* bufio.Scanner.Scan over the unread input: the split function is called
\* until it yields a token or the input is used up.
Scan(data, lineno) ==
    IF Len(data) = 0
    THEN [ok |-> FALSE, text |-> <<>>, rest |-> <<>>, lineno |-> lineno]
    ELSE scanSplit(data, splitLoop(data, 0, NoToken, lineno))

\* '!' <= c && c <= '9' || ';' <= c && c <= '~' over the model's characters
IsFieldNameByte(c) == c \notin {SP, TAB, NL, "\r", ":"}

validateFieldName(name) ==
    IF Len(name) = 0 THEN "empty field name"
    ELSE IF name[1] = "-" THEN "begins with hyphen"
    ELSE IF \E k \in 1..Len(name) : ~IsFieldNameByte(name[k]) THEN "forbidden character"
    ELSE "nil"

\* Paragraph.find
find(m, name) ==
    IF \E k \in 1..Len(m) : m[k].Name = name
    THEN (CHOOSE k \in 1..Len(m) :
              m[k].Name = name /\ \A j \in 1..(k - 1) : m[j].Name # name) - 1
    ELSE -1

\* Paragraph.Get
Get(para, name) ==
    LET i == find(para, name) IN IF i = -1 THEN <<>> ELSE para[i + 1].Value

\* Paragraph.Set appending the field whether or not the name is present
Set_Append(para, name, value) == Append(para, [Name |-> name, Value |-> value])

\* Paragraph.Set
Set(para, name, value) ==
    LET i == find(para, name)
    IN IF i = -1 THEN Append(para, [Name |-> name, Value |-> value])
       ELSE [para EXCEPT ![i + 1].Value = value]

RECURSIVE continuation(_, _, _)
\* The loop of Parser.Next that locates the end of the field value.
continuation(text, valueEnd, lineno) ==
    IF valueEnd + 1 < Len(text) /\ text[valueEnd + 2] \in {SP, TAB, "#"}
    THEN IF text[valueEnd + 2] = "#"
         THEN [comment |-> TRUE, valueEnd |-> valueEnd, lineno |-> lineno + 1]
         ELSE LET i == IndexByte(Slice(text, valueEnd + 1, Len(text)), NL)
              IN continuation(text,
                              IF i = -1 THEN Len(text) ELSE valueEnd + 1 + i,
                              lineno + 1)
    ELSE [comment |-> FALSE, valueEnd |-> valueEnd, lineno |-> lineno]

\* The switch on the field type, followed by strings.Trim(field.Value, " \t").
fieldValue(type, text, colon, valueEnd) ==
    Trim(IF type = Folded THEN RemoveNL(Slice(text, colon + 1, valueEnd))
         ELSE Slice(text, colon + 1, valueEnd),
         {SP, TAB})

parseFail(kind, line, lineno) ==
    [ok |-> FALSE, para |-> <<>>, lineno |-> lineno, err |-> Err(kind, line)]

RECURSIVE parseFields(_, _, _, _)
\* Parser.Next without the test of lines 178-183 for a Simple field
parseValue_AnyLines(text, lineno, para, Fields, name, c, value) ==
    IF Len(value) = 0 THEN parseFail("empty field", lineno, c.lineno)
    ELSE parseFields(TrimPrefix(Slice(text, c.valueEnd, Len(text)), <<NL>>),
                     c.lineno + 1,
                     Append(para, [Name |-> name, Value |-> value]),
                     Fields)

\* Parser.Next from line 176 on: the field's type is known and c is the
\* outcome of the continuation loop
parseValue(text, lineno, para, Fields, name, c, value) ==
    IF FieldTypeOf(Fields, name) = Simple /\ c.lineno # lineno
    THEN parseFail("must be a single line", lineno, c.lineno)
    ELSE IF Len(value) = 0 THEN parseFail("empty field", lineno, c.lineno)
    ELSE parseFields(TrimPrefix(Slice(text, c.valueEnd, Len(text)), <<NL>>),
                     c.lineno + 1,
                     Append(para, [Name |-> name, Value |-> value]),
                     Fields)

\* Parser.Next from line 160 on: the field name is valid and new
parseContinuation(text, lineno, para, Fields, colon, c) ==
    IF c.comment THEN parseFail("comments not allowed", c.lineno, c.lineno)
    ELSE parseValue(text, lineno, para, Fields, Slice(text, 0, colon), c,
                    fieldValue(FieldTypeOf(Fields, Slice(text, 0, colon)),
                               text, colon, c.valueEnd))

\* Parser.Next without the test of line 135 for a comment
parseField_NoComment(text, lineno, para, Fields, valueEnd, colon) ==
    IF colon = -1 THEN parseFail("missing colon", lineno, lineno)
    ELSE IF validateFieldName(Slice(text, 0, colon)) # "nil"
    THEN parseFail(validateFieldName(Slice(text, 0, colon)), lineno, lineno)
    ELSE IF find(para, Slice(text, 0, colon)) # -1
    THEN parseFail("multiple fields", lineno, lineno)
    ELSE parseContinuation(text, lineno, para, Fields, colon,
                           continuation(text, valueEnd, lineno))

\* Parser.Next, one field: valueEnd is the end of the field's first line
parseField(text, lineno, para, Fields, valueEnd, colon) ==
    IF text[1] = "#" THEN parseFail("comments not allowed", lineno, lineno)
    ELSE IF colon = -1 THEN parseFail("missing colon", lineno, lineno)
    ELSE IF validateFieldName(Slice(text, 0, colon)) # "nil"
    THEN parseFail(validateFieldName(Slice(text, 0, colon)), lineno, lineno)
    ELSE IF find(para, Slice(text, 0, colon)) # -1
    THEN parseFail("multiple fields", lineno, lineno)
    ELSE parseContinuation(text, lineno, para, Fields, colon,
                           continuation(text, valueEnd, lineno))

\* The end of the first line of text
firstLineEnd(text) == IF IndexByte(text, NL) # -1 THEN IndexByte(text, NL) ELSE Len(text)

\* The `for len(text) > 0` loop of Parser.Next over one scanned paragraph.
parseFields(text, lineno, para, Fields) ==
    IF Len(text) = 0
    THEN [ok |-> TRUE, para |-> para, lineno |-> lineno, err |-> NoErr]
    ELSE parseField(text, lineno, para, Fields, firstLineEnd(text),
                    IndexByte(Slice(text, 0, firstLineEnd(text)), ":"))

\* NewParser(r) with p.Fields left to the caller
NewParser(r) == [scan |-> r, lineno |-> 1, para |-> <<>>, err |-> NoErr]

\* Parser.Next from line 128 on: the scanned paragraph s parsed into r
nextParsed(s, r) ==
    [p |-> [scan |-> s.rest, lineno |-> r.lineno, para |-> r.para, err |-> r.err],
     ret |-> r.ok]

\* Parser.Next after p.clear() and p.scan.Scan(), whose outcome is s
nextScanned(p, Fields, s) ==
    IF ~s.ok
    THEN [p |-> [p EXCEPT !.para = <<>>, !.scan = s.rest, !.lineno = s.lineno],
          ret |-> FALSE]
    ELSE nextParsed(s, parseFields(s.text, s.lineno, <<>>, Fields))

\* Parser.Next without the test of p.err at its start
Next_Unchecked(p, Fields) == nextScanned(p, Fields, Scan(p.scan, p.lineno))

\* Parser.Next: the parser after the call, and the returned bool
Next(p, Fields) ==
    IF p.err # NoErr THEN [p |-> p, ret |-> FALSE]
    ELSE nextScanned(p, Fields, Scan(p.scan, p.lineno))

\* Parser.Paragraph
Paragraph(p) == p.para

----------------------------------------------------------------------------
(* package deb: the serialiser.                                            *)

\* Field.write with the value's newlines dropped: every value on one line
writeField_OneLine(f) ==
    LET val == RemoveNL(Trim(f.Value, {SP, TAB}))
    IN f.Name \o <<":", SP>> \o val

\* Field.write
writeField(f) ==
    LET val == Trim(f.Value, {SP, TAB})
    IN f.Name \o (IF HasPrefix(val, <<NL>>) THEN <<":">> ELSE <<":", SP>>) \o val

RECURSIVE writeParagraph(_)
\* Paragraph.write
writeParagraph(m) ==
    IF Len(m) = 0 THEN <<>>
    ELSE IF Len(m) = 1 THEN writeField(m[1])
    ELSE writeParagraph(SubSeq(m, 1, Len(m) - 1)) \o <<NL>> \o writeField(m[Len(m)])

RECURSIVE saveLoop(_)
saveLoop(ps) ==
    IF Len(ps) = 0 THEN <<>>
    ELSE IF Len(ps) = 1 THEN writeParagraph(ps[1])
    ELSE saveLoop(SubSeq(ps, 1, Len(ps) - 1)) \o <<NL, NL>> \o writeParagraph(ps[Len(ps)])

\* Save without the newline written after the last paragraph
Save_NoFinalNewline(ps) == saveLoop(ps)

\* Save
Save(ps) == IF Len(ps) = 0 THEN <<>> ELSE saveLoop(ps) \o <<NL>>

RECURSIVE parseLoop(_, _, _)
\* The loop body: n is what p.Next() returned
parseStep(n, Fields, acc) ==
    IF n.ret THEN parseLoop(n.p, Fields, Append(acc, Paragraph(n.p)))
    ELSE [err |-> n.p.err, paragraphs |-> acc]

\* The caller's loop `for p.Next() { paragraphs = append(paragraphs, copy) }`
\* followed by p.Err(), as in downloadIndex.
parseLoop(p, Fields, acc) == parseStep(Next(p, Fields), Fields, acc)

ParseAll(text, Fields) == parseLoop(NewParser(text), Fields, <<>>)

\* The check for trailing data without the p.clear() of line 102
singleTrailing_KeepPara(n, s) ==
    IF s.ok
    THEN [p |-> [n.p EXCEPT !.scan = s.rest, !.lineno = s.lineno,
                            !.err = Err("multiple paragraphs encountered", s.lineno)],
          ret |-> FALSE]
    ELSE [p |-> [n.p EXCEPT !.scan = s.rest, !.lineno = s.lineno], ret |-> TRUE]

\* Parser.Single, the check for trailing data: n is what Next returned and
\* s the outcome of the second p.scan.Scan()
singleTrailing(n, s) ==
    IF s.ok
    THEN [p |-> [scan |-> s.rest, lineno |-> s.lineno, para |-> <<>>,
                 err |-> Err("multiple paragraphs encountered", s.lineno)],
          ret |-> FALSE]
    ELSE [p |-> [n.p EXCEPT !.scan = s.rest, !.lineno = s.lineno], ret |-> TRUE]

\* Parser.Single after its call of p.Next(), which returned n
singleNext(n) ==
    IF ~n.ret
    THEN [p |-> IF n.p.err = NoErr
                THEN [n.p EXCEPT !.err = Err("unexpected EOF", 0)]
                ELSE n.p,
          ret |-> FALSE]
    ELSE singleTrailing(n, Scan(n.p.scan, n.p.lineno))

\* Parser.Single: the parser after the call, and the returned bool
Single(p, Fields) ==
    IF p.err # NoErr THEN [p |-> p, ret |-> FALSE]
    ELSE IF p.lineno # 1
    THEN [p |-> [p EXCEPT !.para = <<>>, !.err = Err("Single called after Next", 0)],
          ret |-> FALSE]
    ELSE singleNext(Next(p, Fields))

----------------------------------------------------------------------------
(* package deb: Release signature lists (release.go).                      *)

HexLower == <<"0", "1", "2", "3", "4", "5", "6", "7", "8", "9",
              "a", "b", "c", "d", "e", "f">>
HexUpper == <<"0", "1", "2", "3", "4", "5", "6", "7", "8", "9",
              "A", "B", "C", "D", "E", "F">>

\* unicode.IsSpace over the model's characters
IsSpace(c) == c \in {SP, TAB, NL, "\r"}

\* encoding/hex fromHexChar: the digit's value, or -1
fromHexChar(c) ==
    IF \E k \in 1..16 : HexLower[k] = c \/ HexUpper[k] = c
    THEN (CHOOSE k \in 1..16 : HexLower[k] = c \/ HexUpper[k] = c) - 1
    ELSE -1

RECURSIVE hexDecode(_)
hexDecode(s) ==
    IF Len(s) < 2 THEN <<>>
    ELSE <<fromHexChar(s[1]) * 16 + fromHexChar(s[2])>> \o hexDecode(SubSeq(s, 3, Len(s)))

\* hex.DecodeString: the bytes, or an error for a character that is no digit
\* or for an odd length
DecodeString(s) ==
    IF Len(s) % 2 = 1 \/ \E k \in 1..Len(s) : fromHexChar(s[k]) = -1
    THEN [ok |-> FALSE, bytes |-> <<>>]
    ELSE [ok |-> TRUE, bytes |-> hexDecode(s)]

RECURSIVE EncodeToString(_)
\* hex.EncodeToString, and the verb %x of a byte slice
EncodeToString(bytes) ==
    IF Len(bytes) = 0 THEN <<>>
    ELSE <<HexLower[(bytes[1] \div 16) + 1], HexLower[(bytes[1] % 16) + 1]>>
         \o EncodeToString(Tail(bytes))

RECURSIVE parseDigits(_, _)
parseDigits(s, acc) ==
    IF Len(s) = 0 THEN acc ELSE parseDigits(Tail(s), acc * 10 + fromHexChar(s[1]))

\* strconv.ParseInt(s, 10, 64) on the digits left after an optional sign
parseUnsigned(s, neg) ==
    IF Len(s) = 0 \/ \E k \in 1..Len(s) : fromHexChar(s[k]) \notin 0..9
    THEN [ok |-> FALSE, val |-> 0]
    ELSE [ok |-> TRUE, val |-> IF neg THEN 0 - parseDigits(s, 0) ELSE parseDigits(s, 0)]

\* strconv.ParseInt(s, 10, 64); the model's numbers stay far below 2^63
ParseInt(s) ==
    IF Len(s) > 0 /\ s[1] \in {"+", "-"} THEN parseUnsigned(Tail(s), s[1] = "-")
    ELSE parseUnsigned(s, FALSE)

RECURSIVE formatNat(_)
formatNat(n) ==
    IF n < 10 THEN <<HexLower[n + 1]>>
    ELSE formatNat(n \div 10) \o <<HexLower[(n % 10) + 1]>>

\* the verb %d
FormatInt(n) == IF n < 0 THEN <<"-">> \o formatNat(0 - n) ELSE formatNat(n)

RECURSIVE Split(_)
\* strings.Split from the newline at 0-based position i of s on, -1 for none
splitAt(s, i) ==
    IF i = -1 THEN <<s>>
    ELSE <<Slice(s, 0, i)>> \o Split(Slice(s, i + 1, Len(s)))

\* strings.Split(s, "\n")
Split(s) == splitAt(s, IndexByte(s, NL))

\* the first position of s from `from` on that holds white space (space =
\* TRUE) or none (space = FALSE); Len(s) + 1 when there is none
firstFrom(s, from, space) ==
    IF \E k \in from..Len(s) : IsSpace(s[k]) = space
    THEN CHOOSE k \in from..Len(s) :
             IsSpace(s[k]) = space /\ \A j \in from..(k - 1) : IsSpace(s[j]) # space
    ELSE Len(s) + 1

RECURSIVE fieldsLoop(_, _)
\* strings.Fields for the field that runs from position start up to end
fieldsToken(s, start, end) == <<SubSeq(s, start, end - 1)>> \o fieldsLoop(s, end)

\* strings.Fields from position from on: white space is skipped, then a
\* field runs up to the next white space
fieldsLoop(s, from) ==
    IF firstFrom(s, from, FALSE) > Len(s) THEN <<>>
    ELSE fieldsToken(s, firstFrom(s, from, FALSE), firstFrom(s, firstFrom(s, from, FALSE), TRUE))

\* strings.Fields
stringsFields(s) == fieldsLoop(s, 1)

\* strings.TrimSpace(line) == ""
IsBlank(line) == \A k \in 1..Len(line) : IsSpace(line[k])

NoSig == [Checksum |-> <<>>, Size |-> 0, Filename |-> <<>>]

\* parseIndexSignature from line 73 on: fs are the three fields of the line
signatureOf(fs, checksumSize, cs, size) ==
    \* len(fields[0]) != hex.EncodedLen(checksumSize)
    IF Len(fs[1]) # checksumSize * 2 THEN [ok |-> FALSE, sig |-> NoSig]
    ELSE IF ~cs.ok THEN [ok |-> FALSE, sig |-> NoSig]
    ELSE IF ~size.ok THEN [ok |-> FALSE, sig |-> NoSig]
    ELSE [ok |-> TRUE,
          sig |-> [Checksum |-> cs.bytes, Size |-> size.val, Filename |-> fs[3]]]

parseSignatureFields(fs, checksumSize) ==
    IF Len(fs) # 3 THEN [ok |-> FALSE, sig |-> NoSig]
    ELSE signatureOf(fs, checksumSize, DecodeString(fs[1]), ParseInt(fs[2]))

parseIndexSignature(line, checksumSize) ==
    parseSignatureFields(stringsFields(line), checksumSize)

RECURSIVE parseSignatureLines(_, _, _, _)
\* The loop body of ParseIndexSignatures for a line that is not blank
parseSignatureLine(lines, i, checksumSize, sigs, r) ==
    IF ~r.ok THEN [err |-> Err("signature", i + 1), sigs |-> <<>>]
    ELSE parseSignatureLines(lines, i + 1, checksumSize, Append(sigs, r.sig))

\* The loop of ParseIndexSignatures, from index i (0-based) of lines
parseSignatureLines(lines, i, checksumSize, sigs) ==
    IF i >= Len(lines) THEN [err |-> NoErr, sigs |-> sigs]
    ELSE IF IsBlank(lines[i + 1])
    THEN parseSignatureLines(lines, i + 1, checksumSize, sigs)
    ELSE parseSignatureLine(lines, i, checksumSize, sigs,
                            parseIndexSignature(lines[i + 1], checksumSize))

ParseIndexSignatures(fieldValue_, checksumSize) ==
    parseSignatureLines(Split(fieldValue_), 0, checksumSize, <<>>)

\* IndexSignature.String with the size written before the checksum
SigString_SizeFirst(sig) ==
    FormatInt(sig.Size) \o <<SP>> \o EncodeToString(sig.Checksum) \o <<SP>> \o sig.Filename

\* IndexSignature.String
SigString(sig) ==
    EncodeToString(sig.Checksum) \o <<SP>> \o FormatInt(sig.Size) \o <<SP>> \o sig.Filename

----------------------------------------------------------------------------
(* package main: the signature-list merge (updateSignature).               *)

RECURSIVE makeNewMap(_, _)
\* newMap[sig.Filename] = sig for every new signature, in order: a later
\* entry for a filename replaces an earlier one
makeNewMap(newSigs, m) ==
    IF Len(newSigs) = 0 THEN m
    ELSE makeNewMap(Tail(newSigs),
                    [f \in DOMAIN m \cup {newSigs[1].Filename} |->
                        IF f = newSigs[1].Filename THEN newSigs[1] ELSE m[f]])

\* delete(newMap, filename)
mapDelete(m, filename) == [f \in DOMAIN m \ {filename} |-> m[f]]

EmptyMap == [f \in {} |-> NoSig]

RECURSIVE replaceLoop(_, _, _)
\* `for i := range sigs`: the existing entries named in newMap take the new
\* checksum and size, and the name leaves newMap.  i is 0-based.
replaceLoop(sigs, i, newMap) ==
    IF i >= Len(sigs) THEN [sigs |-> sigs, newMap |-> newMap]
    ELSE IF sigs[i + 1].Filename \notin DOMAIN newMap
    THEN replaceLoop(sigs, i + 1, newMap)
    ELSE replaceLoop([sigs EXCEPT ![i + 1].Checksum = newMap[sigs[i + 1].Filename].Checksum,
                                  ![i + 1].Size = newMap[sigs[i + 1].Filename].Size],
                     i + 1,
                     mapDelete(newMap, sigs[i + 1].Filename))

RECURSIVE appendLoop_All(_, _, _)
\* The append loop without its "already added" test
appendLoop_All(sigs, newSigs, newMap) ==
    IF Len(newSigs) = 0 THEN sigs
    ELSE appendLoop_All(Append(sigs, newSigs[1]), Tail(newSigs), newMap)

RECURSIVE appendLoop(_, _, _)
\* `for _, sig := range newSigs`: what is still in newMap is appended
appendLoop(sigs, newSigs, newMap) ==
    IF Len(newSigs) = 0 THEN sigs
    ELSE IF newSigs[1].Filename \notin DOMAIN newMap
    THEN appendLoop(sigs, Tail(newSigs), newMap)
    ELSE appendLoop(Append(sigs, newSigs[1]), Tail(newSigs),
                    mapDelete(newMap, newSigs[1].Filename))

RECURSIVE formatSignatures(_)
\* the strings.Builder loop: "\n " and sig.String() for every entry
formatSignatures(sigs) ==
    IF Len(sigs) = 0 THEN <<>>
    ELSE <<NL, SP>> \o SigString(sigs[1]) \o formatSignatures(Tail(sigs))

\* The merge with the named entries taken out and the batch put at the end
mergeSignatures_Requeue(sigs, newSigs) ==
    SelectSeq(sigs, LAMBDA x : \A j \in 1..Len(newSigs) : newSigs[j].Filename # x.Filename)
    \o newSigs

\* The merge proper: the parsed list after both loops
mergeReplaced(r, newSigs) == appendLoop(r.sigs, newSigs, r.newMap)

mergeSignatures(sigs, newSigs) ==
    mergeReplaced(replaceLoop(sigs, 0, makeNewMap(newSigs, EmptyMap)), newSigs)

\* updateSignature after ParseIndexSignatures returned parsed
updateParsed(para, key, newSigs, parsed) ==
    IF parsed.err # NoErr THEN [err |-> parsed.err, para |-> para]
    ELSE [err |-> NoErr,
          para |-> Set(para, key, formatSignatures(mergeSignatures(parsed.sigs, newSigs)))]

\* updateSignature: the error returned and the paragraph afterwards
updateSignature(para, key, newSigs) ==
    IF Len(newSigs) = 0 THEN [err |-> NoErr, para |-> para]
    ELSE updateParsed(para, key, newSigs,
                      ParseIndexSignatures(Get(para, key), Len(newSigs[1].Checksum)))

----------------------------------------------------------------------------
(* package main: package deduplication (dedupePackages).                   *)

Package == <<"P", "a", "c", "k", "a", "g", "e">>
Version == <<"V", "e", "r", "s", "i", "o", "n">>

\* packageVersion{name: pkg.Get("Package"), version: pkg.Get("Version")}
packageVersion(pkg) == [name |-> Get(pkg, Package), version |-> Get(pkg, Version)]

NoPackageVersion == Err("package found without Package or Version", 0)

\* index[v] = i
indexPut(index, v, i) == [w \in DOMAIN index \cup {v} |-> IF w = v THEN i ELSE index[w]]

EmptyIndex == [w \in {} |-> 0]

\* The paragraphs whose identity occurs at no later position, in slice order
dedupePackages_LastPosition(pkgs) ==
    [err |-> IF \E k \in 1..Len(pkgs) :
                    packageVersion(pkgs[k]).name = <<>> \/ packageVersion(pkgs[k]).version = <<>>
             THEN NoPackageVersion ELSE NoErr,
     packages |->
        IF \E k \in 1..Len(pkgs) :
               packageVersion(pkgs[k]).name = <<>> \/ packageVersion(pkgs[k]).version = <<>>
        THEN <<>>
        ELSE LET keep[k \in 0..Len(pkgs)] ==
                     IF k = 0 THEN <<>>
                     ELSE IF \E j \in (k + 1)..Len(pkgs) :
                                 packageVersion(pkgs[j]) = packageVersion(pkgs[k])
                     THEN keep[k - 1]
                     ELSE Append(keep[k - 1], pkgs[k])
             IN keep[Len(pkgs)]]

RECURSIVE dedupeLoop_KeepFirst(_, _, _, _)
\* The loop without the write to a slot that is already taken
dedupeLoop_KeepFirst(pkgs, k, n, index) ==
    IF k >= Len(pkgs) THEN [err |-> NoErr, packages |-> SubSeq(pkgs, 1, n)]
    ELSE IF packageVersion(pkgs[k + 1]).name = <<>> \/ packageVersion(pkgs[k + 1]).version = <<>>
    THEN [err |-> NoPackageVersion, packages |-> <<>>]
    ELSE IF packageVersion(pkgs[k + 1]) \in DOMAIN index
    THEN dedupeLoop_KeepFirst(pkgs, k + 1, n, index)
    ELSE dedupeLoop_KeepFirst([pkgs EXCEPT ![n + 1] = pkgs[k + 1]], k + 1, n + 1,
                              indexPut(index, packageVersion(pkgs[k + 1]), n))

dedupePackages_KeepFirst(pkgs) == dedupeLoop_KeepFirst(pkgs, 0, 0, EmptyIndex)

RECURSIVE dedupeLoop(_, _, _, _)
\* The loop body passing over a paragraph without Package or Version
dedupeStep_SkipBad(pkgs, k, n, index, pkg, v) ==
    IF v.name = <<>> \/ v.version = <<>>
    THEN dedupeLoop(pkgs, k + 1, n, index)
    ELSE IF v \in DOMAIN index
    THEN dedupeLoop([pkgs EXCEPT ![index[v] + 1] = pkg], k + 1, n, indexPut(index, v, index[v]))
    ELSE dedupeLoop([pkgs EXCEPT ![n + 1] = pkg], k + 1, n + 1, indexPut(index, v, n))

\* The body of `for _, pkg := range packages` for the element pkg with
\* identity v: packages[i] = pkg is written into the slice being ranged over
dedupeStep(pkgs, k, n, index, pkg, v) ==
    IF v.name = <<>> \/ v.version = <<>>
    THEN [err |-> NoPackageVersion, packages |-> <<>>]
    ELSE IF v \in DOMAIN index
    THEN dedupeLoop([pkgs EXCEPT ![index[v] + 1] = pkg], k + 1, n, indexPut(index, v, index[v]))
    ELSE dedupeLoop([pkgs EXCEPT ![n + 1] = pkg], k + 1, n + 1, indexPut(index, v, n))

\* `for _, pkg := range packages` from the 0-based position k on, with n
\* slots taken; at the end `return packages[:n], nil`
dedupeLoop(pkgs, k, n, index) ==
    IF k >= Len(pkgs) THEN [err |-> NoErr, packages |-> SubSeq(pkgs, 1, n)]
    ELSE dedupeStep(pkgs, k, n, index, pkgs[k + 1], packageVersion(pkgs[k + 1]))

dedupePackages(pkgs) == dedupeLoop(pkgs, 0, 0, EmptyIndex)

----------------------------------------------------------------------------
(* package main: blob keys, digests and uploads.                           *)

\* distribution.dir: "dists/" + dist
distDir(dist) == <<"d", "i", "s", "t", "s", "/">> \o dist

\* distribution.indexPath: dist.dir() + "/Release"
indexPath(dist) == distDir(dist) \o <<"/", "R", "e", "l", "e", "a", "s", "e">>

\* component.dir: comp.dist.dir() + "/" + comp.name
compDir(comp) == distDir(comp.dist) \o <<"/">> \o comp.name

\* component.binaryIndexPath: comp.dir() + "/binary-" + arch + "/Packages"
binaryIndexPath(comp, arch) ==
    compDir(comp) \o <<"/", "b", "i", "n", "a", "r", "y", "-">> \o arch
                  \o <<"/", "P", "a", "c", "k", "a", "g", "e", "s">>

\* component.sourceIndexPath: comp.dir() + "/source/Sources"
sourceIndexPath(comp) ==
    compDir(comp) \o <<"/", "s", "o", "u", "r", "c", "e",
                       "/", "S", "o", "u", "r", "c", "e", "s">>

gzipExtension == <<".", "g", "z">>

\* the bytes of the characters that stored text is made of
Chars ==
    << "a", "b", "c", "d", "e", "f", "g", "h", "i", "j", "k", "l", "m",
       "n", "o", "p", "q", "r", "s", "t", "u", "v", "w", "x", "y", "z",
       "A", "B", "C", "D", "E", "F", "G", "H", "I", "J", "K", "L", "M",
       "N", "O", "P", "Q", "R", "S", "T", "U", "V", "W", "X", "Y", "Z",
       "0", "1", "2", "3", "4", "5", "6", "7", "8", "9", " ", ":", "/",
       "-", ".", "+", "#", "_", "," >>

byteOf == [c \in { Chars[i] : i \in 1..Len(Chars) } \cup {NL, TAB} |->
              IF c = NL THEN 10
              ELSE IF c = TAB THEN 9
              ELSE 31 + (CHOOSE i \in 1..Len(Chars) : Chars[i] = c)]

\* the sums of two stretches of bytes put together
addSums(l, r) ==
    [plain |-> (l.plain + r.plain) % 256,
     weighted |-> (l.weighted + r.weighted) % 256,
     squares |-> (l.squares + r.squares) % 256]

RECURSIVE sumBytes(_, _, _)
\* over the bytes b[lo..hi]: the sum, the position-weighted sum and the sum
\* of squares, each modulo 256
sumBytes(b, lo, hi) ==
    IF lo > hi THEN [plain |-> 0, weighted |-> 0, squares |-> 0]
    ELSE IF lo = hi
    THEN [plain |-> b[lo] % 256, weighted |-> (lo * b[lo]) % 256,
          squares |-> (b[lo] * b[lo]) % 256]
    ELSE addSums(sumBytes(b, lo, (lo + hi) \div 2), sumBytes(b, (lo + hi) \div 2 + 1, hi))

\* the hashes of upload: a size and three digests that depend on every
\* byte, here of one byte each
hashesOf(content, sums) ==
    [size |-> Len(content),
     md5 |-> <<sums.plain>>,
     sha1 |-> <<sums.weighted>>,
     sha256 |-> <<(sums.squares + Len(content)) % 256>>]

indexHashes(content) ==
    hashesOf(content,
             sumBytes([i \in 1..Len(content) |-> byteOf[content[i]]], 1, Len(content)))

NoHashes == [size |-> 0, md5 |-> <<0>>, sha1 |-> <<0>>, sha256 |-> <<0>>]

\* gzip.Writer: a header, the payload and a trailer holding its length
gzip(content) == <<"G", "Z">> \o content \o FormatInt(Len(content))

\* bucket with content stored under key
WriteAll(b, key, content) ==
    [k \in DOMAIN b \cup {key} |-> IF k = key THEN content ELSE b[k]]

\* upload: hash the content and write it under key, whatever is stored
\* there; with fail the writer returns an error and nothing is stored
upload(b, key, content, fail) ==
    IF fail THEN [err |-> Err("upload", 0), bucket |-> b, hashes |-> NoHashes]
    ELSE [err |-> NoErr, bucket |-> WriteAll(b, key, content), hashes |-> indexHashes(content)]

\* The gzip variant reported with the hashes of the plain one
uploadedGzip_PlainHashes(u, z) ==
    IF z.err # NoErr
    THEN [err |-> z.err, bucket |-> z.bucket, plain |-> NoHashes, gz |-> NoHashes]
    ELSE [err |-> NoErr, bucket |-> z.bucket, plain |-> u.hashes, gz |-> u.hashes]

\* uploadIndex after the upload of the gzip variant returned z
uploadedGzip(u, z) ==
    IF z.err # NoErr
    THEN [err |-> z.err, bucket |-> z.bucket, plain |-> NoHashes, gz |-> NoHashes]
    ELSE [err |-> NoErr, bucket |-> z.bucket, plain |-> u.hashes, gz |-> z.hashes]

\* uploadIndex after the upload of the plain variant returned u
uploadedPlain(u, key, text, fault) ==
    IF u.err # NoErr
    THEN [err |-> u.err, bucket |-> u.bucket, plain |-> NoHashes, gz |-> NoHashes]
    ELSE uploadedGzip(u, upload(u.bucket, key \o gzipExtension, gzip(text), fault = "gzip"))

\* uploadIndex: Save, upload under key, gzip, upload under key + ".gz"
uploadIndex(b, key, pkgs, fault) ==
    uploadedPlain(upload(b, key, Save(pkgs), fault = "plain"), key, Save(pkgs), fault)

----------------------------------------------------------------------------
(* package main: the index update pass (appendToIndex).                    *)

\* downloadIndex returning what was parsed before the error, and nil
downloadParsed_Partial(parsed) == [err |-> NoErr, paragraphs |-> parsed.paragraphs]

\* downloadIndex after the parse of the blob returned parsed
downloadParsed(parsed) ==
    IF parsed.err # NoErr THEN [err |-> parsed.err, paragraphs |-> <<>>] ELSE parsed

\* downloadIndex taking every index for a missing one
downloadIndex_Missing(b, key, Fields, fault) == [err |-> NoErr, paragraphs |-> <<>>]

\* downloadIndex: a missing blob is an empty index; another read error
\* (fault "read") and a parse error are returned
downloadIndex(b, key, Fields, fault) ==
    IF fault = "read" THEN [err |-> Err("read", 0), paragraphs |-> <<>>]
    ELSE IF key \notin DOMAIN b THEN [err |-> NoErr, paragraphs |-> <<>>]
    ELSE downloadParsed(ParseAll(b[key], Fields))

Description == <<"D", "e", "s", "c", "r", "i", "p", "t", "i", "o", "n">>

\* deb.ControlFields
ControlFields == [n \in {Description} |-> Multiline]

MD5Sum == <<"M", "D", "5", "S", "u", "m">>
SHA1 == <<"S", "H", "A", "1">>
SHA256 == <<"S", "H", "A", "2", "5", "6">>

\* deb.ReleaseFields
ReleaseFields == [n \in {MD5Sum, SHA1, SHA256} |-> Multiline]

IndexSignature(filename, checksum, size) ==
    [Checksum |-> checksum, Size |-> size, Filename |-> filename]

\* appendToIndex after updateSignature(release, "SHA256", ...) returned s
signedSHA256(b, s, stage) ==
    [err |-> s.err, bucket |-> b, release |-> s.para,
     stage |-> IF s.err # NoErr THEN "SHA256" ELSE stage]

\* appendToIndex after updateSignature(release, "SHA1", ...) returned s
signedSHA1(b, s, u, distPath) ==
    IF s.err # NoErr
    THEN [err |-> s.err, bucket |-> b, release |-> s.para, stage |-> "SHA1"]
    ELSE signedSHA256(b,
             updateSignature(s.para, SHA256,
                 <<IndexSignature(distPath, u.plain.sha256, u.plain.size),
                   IndexSignature(distPath \o gzipExtension, u.gz.sha256, u.gz.size)>>),
             "done")

\* appendToIndex after updateSignature(release, "MD5Sum", ...) returned s
signedMD5Sum(b, s, u, distPath) ==
    IF s.err # NoErr
    THEN [err |-> s.err, bucket |-> b, release |-> s.para, stage |-> "MD5Sum"]
    ELSE signedSHA1(b,
             updateSignature(s.para, SHA1,
                 <<IndexSignature(distPath, u.plain.sha1, u.plain.size),
                   IndexSignature(distPath \o gzipExtension, u.gz.sha1, u.gz.size)>>),
             u, distPath)

\* appendToIndex after uploadIndex returned u
appendUploaded(u, release_, distPath) ==
    IF u.err # NoErr
    THEN [err |-> u.err, bucket |-> u.bucket, release |-> release_, stage |-> "upload"]
    ELSE signedMD5Sum(u.bucket,
             updateSignature(release_, MD5Sum,
                 <<IndexSignature(distPath, u.plain.md5, u.plain.size),
                   IndexSignature(distPath \o gzipExtension, u.gz.md5, u.gz.size)>>),
             u, distPath)

\* appendToIndex after dedupePackages returned d
appendDeduped(b, dist, release_, key, d, fault) ==
    IF d.err # NoErr
    THEN [err |-> d.err, bucket |-> b, release |-> release_, stage |-> "dedupe"]
    ELSE appendUploaded(uploadIndex(b, key, d.packages, fault), release_,
                        TrimPrefix(key, distDir(dist) \o <<"/">>))

\* The pass with the new paragraphs put before the existing ones
appendDownloaded_Prepend(b, dist, release_, key, newParagraphs, fault, existing) ==
    IF existing.err # NoErr
    THEN [err |-> existing.err, bucket |-> b, release |-> release_, stage |-> "download"]
    ELSE appendDeduped(b, dist, release_, key,
                       dedupePackages(newParagraphs \o existing.paragraphs), fault)

\* appendToIndex after downloadIndex returned existing
appendDownloaded(b, dist, release_, key, newParagraphs, fault, existing) ==
    IF existing.err # NoErr
    THEN [err |-> existing.err, bucket |-> b, release |-> release_, stage |-> "download"]
    ELSE appendDeduped(b, dist, release_, key,
                       dedupePackages(existing.paragraphs \o newParagraphs), fault)

\* appendToIndex: the error returned, the bucket and the Release paragraph
\* afterwards, and the stage that returned
appendToIndex(b, dist, release_, key, Fields, newParagraphs, fault) ==
    IF Len(newParagraphs) = 0
    THEN [err |-> NoErr, bucket |-> b, release |-> release_, stage |-> "empty"]
    ELSE appendDownloaded(b, dist, release_, key, newParagraphs, fault,
                          downloadIndex(b, key, Fields, fault))

----------------------------------------------------------------------------
(* package main: the Release index in the bucket and the upload command.   *)

\* deb.ParseReleaseIndex after p.Single() returned n
releaseParsed(n) ==
    IF ~n.ret THEN [err |-> n.p.err, para |-> <<>>]
    ELSE [err |-> NoErr, para |-> Paragraph(n.p)]

\* deb.ParseReleaseIndex
ParseReleaseIndex(r) == releaseParsed(Single(NewParser(r), ReleaseFields))

\* downloadReleaseIndex: a missing Release is a nil paragraph; another read
\* error (fault "releaseRead") and a parse error are returned
downloadReleaseIndex(b, dist, fault) ==
    IF fault.kind = "releaseRead" THEN [err |-> Err("read", 0), para |-> <<>>]
    ELSE IF indexPath(dist) \notin DOMAIN b THEN [err |-> NoErr, para |-> <<>>]
    ELSE ParseReleaseIndex(b[indexPath(dist)])

RECURSIVE Join(_, _)
\* strings.Join(elems, sep)
Join(elems, sep) ==
    IF Len(elems) = 0 THEN <<>>
    ELSE IF Len(elems) = 1 THEN elems[1]
    ELSE elems[1] \o sep \o Join(Tail(elems), sep)

\* the 1-based position of the last field of para named key, or 0
lastNamed(para, key) ==
    IF \E i \in 1..Len(para) : para[i].Name = key
    THEN CHOOSE i \in 1..Len(para) :
             para[i].Name = key /\ \A j \in (i + 1)..Len(para) : para[j].Name # key
    ELSE 0

\* addToTokenSet with f the field found at position i and elems its tokens
addToken(para, i, elems, s_) ==
    IF \E k \in 1..Len(elems) : elems[k] = s_ THEN para
    ELSE [para EXCEPT ![i].Value = Join(Append(elems, s_), <<SP>>)]

\* addToTokenSet with i the position of the field found, 0 for none
addToTokenField(para, key, s_, i) ==
    IF i = 0 THEN Append(para, [Name |-> key, Value |-> s_])
    ELSE addToken(para, i, stringsFields(para[i].Value), s_)

\* addToTokenSet
addToTokenSet(para, key, s_) == addToTokenField(para, key, s_, lastNamed(para, key))

\* promotePackageField with i the 1-based position of the first Package
\* field, 0 for none: copy(para[1:], para[:i]) and para[0] = f
promoteAt(para, i) ==
    IF i = 0 THEN para
    ELSE <<para[i]>> \o SubSeq(para, 1, i - 1) \o SubSeq(para, i + 1, Len(para))

promotePackageField(para) == promoteAt(para, find(para, Package) + 1)

\* filepath.Ext: the suffix of the name from its last dot on
Ext(name) ==
    IF \E i \in 1..Len(name) : name[i] = "."
    THEN SubSeq(name,
                CHOOSE i \in 1..Len(name) :
                    name[i] = "." /\ \A j \in (i + 1)..Len(name) : name[j] # ".",
                Len(name))
    ELSE <<>>

\* poolPath: "pool/" + name
poolPath(name) == <<"p", "o", "o", "l", "/">> \o name

Architecture == <<"A", "r", "c", "h", "i", "t", "e", "c", "t", "u", "r", "e">>
Architectures == <<"A", "r", "c", "h", "i", "t", "e", "c", "t", "u", "r", "e", "s">>
Components == <<"C", "o", "m", "p", "o", "n", "e", "n", "t", "s">>
Date == <<"D", "a", "t", "e">>
Filename == <<"F", "i", "l", "e", "n", "a", "m", "e">>
Size == <<"S", "i", "z", "e">>
MD5sum == <<"M", "D", "5", "s", "u", "m">>

\* deb.SourceControlFields
SourceControlFields ==
    [n \in {<<"B", "i", "n", "a", "r", "y">>,
            <<"C", "h", "e", "c", "k", "s", "u", "m", "s", "-", "S", "h", "a", "1">>,
            <<"C", "h", "e", "c", "k", "s", "u", "m", "s", "-",
              "S", "h", "a", "2", "5", "6">>,
            <<"D", "g", "i", "t">>,
            <<"F", "i", "l", "e", "s">>,
            <<"P", "a", "c", "k", "a", "g", "e", "-", "L", "i", "s", "t">>,
            <<"U", "p", "l", "o", "a", "d", "e", "r", "s">>} |->
        IF n \in {<<"B", "i", "n", "a", "r", "y">>, <<"D", "g", "i", "t">>,
                  <<"U", "p", "l", "o", "a", "d", "e", "r", "s">>}
        THEN Folded ELSE Multiline]

NoFault == [kind |-> "none", key |-> <<>>]

\* the fault, if any, that strikes an operation of the given kind on key
faultAt(fault, key) == IF fault.key = key THEN fault.kind ELSE "none"

\* uploadBinaryPackage after the upload to the pool returned u
binaryUploaded(u, pkg, name) ==
    IF u.err # NoErr THEN [err |-> u.err, bucket |-> u.bucket, pkg |-> <<>>]
    ELSE [err |-> NoErr, bucket |-> u.bucket,
          pkg |-> Set(Set(Set(Set(Set(pkg, Filename, poolPath(name)),
                                  Size, FormatInt(u.hashes.size)),
                              MD5sum, EncodeToString(u.hashes.md5)),
                          SHA1, EncodeToString(u.hashes.sha1)),
                      SHA256, EncodeToString(u.hashes.sha256))]

\* uploadBinaryPackage with pkg the promoted control paragraph
binaryPromoted(b, file, fault, pkg) ==
    IF Get(pkg, Architecture) = <<>>
    THEN [err |-> Err("missing Architecture field", 0), bucket |-> b, pkg |-> <<>>]
    ELSE binaryUploaded(upload(b, poolPath(file.name), file.content,
                               faultAt(fault, poolPath(file.name)) = "pool"),
                        pkg, file.name)

\* uploadBinaryPackage after p.Single() on the control file returned n
binaryParsed(b, file, fault, n) ==
    IF ~n.ret /\ n.p.err # NoErr THEN [err |-> n.p.err, bucket |-> b, pkg |-> <<>>]
    ELSE binaryPromoted(b, file, fault, promotePackageField(Paragraph(n.p)))

\* uploadBinaryPackage: the control file of the package is parsed, the
\* package goes to the pool and its paragraph gets Filename, Size and digests
uploadBinaryPackage(b, file, fault) ==
    binaryParsed(b, file, fault, Single(NewParser(file.control), ControlFields))

\* uploadSourcePackage, as cmdUpload sees it: an error, or the paragraph of
\* the source package with its files in the pool
uploadSourcePackage(b, file, fault) ==
    IF faultAt(fault, poolPath(file.name)) = "pool"
    THEN [err |-> Err("upload", 0), bucket |-> b, pkg |-> <<>>]
    ELSE [err |-> NoErr, bucket |-> WriteAll(b, poolPath(file.name), file.content),
          pkg |-> file.source]

RECURSIVE addToEach(_, _, _)
\* binaryAdditions[arch] = append(binaryAdditions[arch], pkg) for each arch
addToEach(bin, archs, pkg) ==
    IF Len(archs) = 0 THEN bin
    ELSE addToEach([a \in DOMAIN bin \cup {archs[1]} |->
                       IF a = archs[1]
                       THEN (IF a \in DOMAIN bin THEN Append(bin[a], pkg) ELSE <<pkg>>)
                       ELSE bin[a]],
                   Tail(archs), pkg)

NoAdditions == [a \in {} |-> <<>>]

RECURSIVE pathsLoop(_, _, _, _, _, _)
\* cmdUpload's path loop after uploadBinaryPackage returned u
debUploaded(u, rel, rest, bin, src, fault) ==
    IF u.err # NoErr
    THEN [err |-> u.err, bucket |-> u.bucket, release |-> rel, bin |-> bin, src |-> src]
    ELSE IF Get(u.pkg, Architecture) = <<"a", "l", "l">>
    THEN pathsLoop(u.bucket, rel, rest,
                   addToEach(bin, stringsFields(Get(rel, Architectures)), u.pkg), src, fault)
    ELSE pathsLoop(u.bucket, addToTokenSet(rel, Architectures, Get(u.pkg, Architecture)), rest,
                   addToEach(bin, <<Get(u.pkg, Architecture)>>, u.pkg), src, fault)

\* cmdUpload's path loop after uploadSourcePackage returned u
dscUploaded(u, rel, rest, bin, src, fault) ==
    IF u.err # NoErr
    THEN [err |-> u.err, bucket |-> u.bucket, release |-> rel, bin |-> bin, src |-> src]
    ELSE pathsLoop(u.bucket, rel, rest, bin, Append(src, u.pkg), fault)

\* `for _, path := range paths { switch filepath.Ext(path) ... }`
pathsLoop(b, rel, paths, bin, src, fault) ==
    IF Len(paths) = 0
    THEN [err |-> NoErr, bucket |-> b, release |-> rel, bin |-> bin, src |-> src]
    ELSE IF Ext(paths[1].name) = <<".", "d", "e", "b">>
    THEN debUploaded(uploadBinaryPackage(b, paths[1], fault), rel, Tail(paths), bin, src, fault)
    ELSE IF Ext(paths[1].name) = <<".", "d", "s", "c">>
    THEN dscUploaded(uploadSourcePackage(b, paths[1], fault), rel, Tail(paths), bin, src, fault)
    ELSE [err |-> Err("unrecognized extension", 0), bucket |-> b, release |-> rel,
          bin |-> bin, src |-> src]

\* a Release signing step: gpg run on the Release bytes with the key
clearSign(data, keyID) == <<"C", ":">> \o keyID \o <<NL>> \o data
detachSign(data, keyID) ==
    <<"S", ":">> \o keyID \o <<NL>> \o EncodeToString(indexHashes(data).sha256)

signedIndexPath(dist) == distDir(dist) \o <<"/", "I", "n", "R", "e", "l", "e", "a", "s", "e">>
indexSignaturePath(dist) ==
    distDir(dist) \o <<"/", "R", "e", "l", "e", "a", "s", "e", ".", "g", "p", "g">>

\* uploadReleaseIndex from the signing steps on, the Release being written
releaseSigned(b, dist, data, keyID, fault) ==
    IF keyID = <<>> THEN [err |-> NoErr, bucket |-> b]
    ELSE IF fault.kind = "clearSign" THEN [err |-> Err("generate InRelease", 0), bucket |-> b]
    ELSE IF fault.kind = "inReleaseWrite" THEN [err |-> Err("upload InRelease", 0), bucket |-> b]
    ELSE IF fault.kind = "detachSign"
    THEN [err |-> Err("generate Release.gpg", 0),
          bucket |-> WriteAll(b, signedIndexPath(dist), clearSign(data, keyID))]
    ELSE IF fault.kind = "gpgWrite"
    THEN [err |-> Err("upload Release.gpg", 0),
          bucket |-> WriteAll(b, signedIndexPath(dist), clearSign(data, keyID))]
    ELSE [err |-> NoErr,
          bucket |-> WriteAll(WriteAll(b, signedIndexPath(dist), clearSign(data, keyID)),
                              indexSignaturePath(dist), detachSign(data, keyID))]

\* uploadReleaseIndex for the serialised Release
releaseSaved(b, dist, data, keyID, fault) ==
    IF fault.kind = "releaseWrite" THEN [err |-> Err("upload Release", 0), bucket |-> b]
    ELSE releaseSigned(WriteAll(b, indexPath(dist), data), dist, data, keyID, fault)

\* uploadReleaseIndex: Save, write Release, and with a key InRelease and
\* Release.gpg
uploadReleaseIndex(b, dist, release_, keyID, fault) ==
    releaseSaved(b, dist, Save(<<release_>>), keyID, fault)

\* cmdUpload after uploadReleaseIndex returned u
cmdReleased(u, rel, written) ==
    [err |-> u.err, bucket |-> u.bucket, release |-> rel, written |-> written]

\* cmdUpload after the appendToIndex of the Sources index returned a
cmdSourced(a, comp, keyID, fault, now, written) ==
    IF a.err # NoErr
    THEN [err |-> a.err, bucket |-> a.bucket, release |-> a.release, written |-> written]
    ELSE cmdReleased(uploadReleaseIndex(a.bucket, comp.dist, Set(a.release, Date, now),
                                        keyID, fault),
                     Set(a.release, Date, now),
                     IF a.stage = "done" THEN Append(written, sourceIndexPath(comp)) ELSE written)

RECURSIVE archLoop(_, _, _, _, _, _, _, _, _, _)
\* cmdUpload's architecture loop after one appendToIndex returned a
archAppended(a, comp, keyID, order, bin, src, fault, now, written) ==
    IF a.err # NoErr
    THEN [err |-> a.err, bucket |-> a.bucket, release |-> a.release, written |-> written]
    ELSE archLoop(a.bucket, a.release, comp, keyID, Tail(order), bin, src, fault, now,
                  Append(written, binaryIndexPath(comp, order[1])))

\* `for arch, packages := range binaryAdditions`, the map being ranged over
\* in the order `order`, then the pass over the Sources index
archLoop(b, rel, comp, keyID, order, bin, src, fault, now, written) ==
    IF Len(order) = 0
    THEN cmdSourced(appendToIndex(b, comp.dist, rel, sourceIndexPath(comp), SourceControlFields,
                                  src, faultAt(fault, sourceIndexPath(comp))),
                    comp, keyID, fault, now, written)
    ELSE IF order[1] \notin DOMAIN bin
    THEN archLoop(b, rel, comp, keyID, Tail(order), bin, src, fault, now, written)
    ELSE archAppended(appendToIndex(b, comp.dist, rel, binaryIndexPath(comp, order[1]),
                                    ControlFields, bin[order[1]],
                                    faultAt(fault, binaryIndexPath(comp, order[1]))),
                      comp, keyID, order, bin, src, fault, now, written)

\* cmdUpload after its path loop returned l
cmdPathsDone(l, comp, keyID, order, fault, now) ==
    IF l.err # NoErr
    THEN [err |-> l.err, bucket |-> l.bucket, release |-> l.release, written |-> <<>>]
    ELSE archLoop(l.bucket, l.release, comp, keyID, order, l.bin, l.src, fault, now, <<>>)

\* cmdUpload after downloadReleaseIndex returned d
cmdDownloaded(b, d, comp, keyID, paths, order, fault, now) ==
    IF d.err # NoErr
    THEN [err |-> d.err, bucket |-> b, release |-> <<>>, written |-> <<>>]
    ELSE cmdPathsDone(pathsLoop(b, addToTokenSet(d.para, Components, comp.name), paths,
                                NoAdditions, <<>>, fault),
                      comp, keyID, order, fault, now)

\* cmdUpload: the error returned, the bucket afterwards, the Release
\* paragraph it held last, and the keys of the indices it wrote.  order is
\* the order in which the map binaryAdditions happens to be ranged over and
\* now the formatted time of the clock.
cmdUpload(b, comp, keyID, paths, order, fault, now) ==
    cmdDownloaded(b, downloadReleaseIndex(b, comp.dist, fault), comp, keyID, paths, order,
                  fault, now)

RECURSIVE preserveSums(_, _, _)
\* The loop of cmdInit with the test for the old value turned into one for
\* the template's: a list of the template is kept
preserveSums_KeepTemplate(newRelease, oldRelease, keys) ==
    IF Len(keys) = 0 THEN newRelease
    ELSE IF Get(oldRelease, keys[1]) # <<>> /\ Get(newRelease, keys[1]) = <<>>
    THEN preserveSums(Set(newRelease, keys[1], Get(oldRelease, keys[1])), oldRelease,
                      Tail(keys))
    ELSE preserveSums(newRelease, oldRelease, Tail(keys))

\* cmdInit, `for _, k := range keys`: a value of the old Release that is not
\* empty is set in the new one
preserveSums(newRelease, oldRelease, keys) ==
    IF Len(keys) = 0 THEN newRelease
    ELSE IF Get(oldRelease, keys[1]) # <<>>
    THEN preserveSums(Set(newRelease, keys[1], Get(oldRelease, keys[1])), oldRelease,
                      Tail(keys))
    ELSE preserveSums(newRelease, oldRelease, Tail(keys))

\* cmdInit after uploadReleaseIndex returned u for the Release rel
initReleased(u, rel) == [err |-> u.err, bucket |-> u.bucket, release |-> rel]

\* cmdInit after downloadReleaseIndex returned old
initDownloaded(b, dist, newRelease, old, keyID, fault, now) ==
    IF old.err # NoErr THEN [err |-> old.err, bucket |-> b, release |-> <<>>]
    ELSE initReleased(uploadReleaseIndex(b, dist,
                                         Set(preserveSums(newRelease, old.para,
                                                          <<MD5Sum, SHA1, SHA256>>),
                                             Date, now),
                                         keyID, fault),
                      Set(preserveSums(newRelease, old.para, <<MD5Sum, SHA1, SHA256>>),
                          Date, now))

\* cmdInit after deb.ParseReleaseIndex(os.Stdin) returned parsed
initParsed(b, dist, parsed, keyID, fault, now) ==
    IF parsed.err # NoErr THEN [err |-> parsed.err, bucket |-> b, release |-> <<>>]
    ELSE initDownloaded(b, dist, parsed.para, downloadReleaseIndex(b, dist, fault), keyID,
                        fault, now)

\* cmdInit: the error returned, the bucket afterwards and the Release built
cmdInit(b, dist, stdin, keyID, fault, now) ==
    initParsed(b, dist, ParseReleaseIndex(stdin), keyID, fault, now)

----------------------------------------------------------------------------
(* What a behaviour leaves untouched starts out empty.                     *)

NoBlobs == [k \in {} |-> <<>>]

CodecIdle ==
    /\ input = <<>>
    /\ fields = <<>>
    /\ parser = NewParser(<<>>)
    /\ paragraphs = <<>>
    /\ ret = "none"

SigIdle ==
    /\ release = <<>>
    /\ orig = <<>>
    /\ prev = <<>>
    /\ batch = <<>>
    /\ earlier = <<>>
    /\ calls = 0
    /\ err = NoErr

StoreIdle ==
    /\ packages = <<>>
    /\ deduped = [err |-> NoErr, packages |-> <<>>]
    /\ bucket = NoBlobs
    /\ before = NoBlobs
    /\ log = <<>>
    /\ procs = <<>>

----------------------------------------------------------------------------
(* The codec exercised on bounded input: a text of at most MaxLines lines  *)
(* drawn from Lines and joined by newlines (a last line "" gives the text  *)
(* its final newline), parsed under one of the mappings FieldMaps.         *)

MaxLines == 4

Lines ==
    { <<"a", ":", SP, "x", SP>>,    \* a field, blanks around the value
      <<"b", ":", "x">>,            \* a second field
      <<"b", ":", TAB>>,            \* an empty first line holding a tab
      <<SP, "y">>,                  \* a continuation line
      <<TAB, "z", SP>>,             \* a continuation line with a trailing blank
      <<>>,                         \* an empty line
      <<SP>>,                       \* a line of blanks
      <<"#", ":", "x">>,            \* a comment, one that holds a colon
      <<"x">>,                      \* no colon
      <<"-", ":", "x">> }           \* a forbidden field name

RECURSIVE JoinNL(_)
JoinNL(ls) ==
    IF Len(ls) = 0 THEN <<>>
    ELSE IF Len(ls) = 1 THEN ls[1]
    ELSE ls[1] \o <<NL>> \o JoinNL(Tail(ls))

Texts == { JoinNL(ls) : ls \in UNION { [1..n -> Lines] : n \in 0..MaxLines } }

\* b is Multiline and a, unmapped, Simple; or a is Multiline and b Folded
FieldMaps ==
    { [n \in {<<"b">>} |-> Multiline],
      [n \in {<<"a">>, <<"b">>} |-> IF n = <<"a">> THEN Multiline ELSE Folded] }

CodecInit ==
    /\ mode = "codec"
    /\ input \in Texts
    /\ fields \in FieldMaps
    /\ parser = NewParser(input)
    /\ paragraphs = <<>>
    /\ ret = "none"
    /\ SigIdle
    /\ StoreIdle

\* The caller takes the outcome n of a call: on true the paragraph is copied
\* onto the caller's list.
Called(n) ==
    /\ parser' = n.p
    /\ ret' = IF n.ret THEN "true" ELSE "false"
    /\ paragraphs' = IF n.ret THEN Append(paragraphs, Paragraph(n.p)) ELSE paragraphs

\* One iteration of the caller's loop `for p.Next()`
ParserNext ==
    /\ mode = "codec"
    /\ Called(Next(parser, fields))
    /\ UNCHANGED <<mode, input, fields>>
    /\ UNCHANGED sigVars
    /\ UNCHANGED storeVars

\* p.Single(), and on true the caller takes p.Paragraph()
ParserSingle ==
    /\ mode = "codec"
    /\ Called(Single(parser, fields))
    /\ UNCHANGED <<mode, input, fields>>
    /\ UNCHANGED sigVars
    /\ UNCHANGED storeVars

CodecNext == ParserNext \/ ParserSingle

CodecSpec == CodecInit /\ [][CodecNext]_vars

----------------------------------------------------------------------------
(* The signature-list merge exercised on a Release paragraph whose MD5Sum  *)
(* field holds any list of at most MaxSigs entries (a filename may occur   *)
(* more than once in it), or a hand-written value, with batches of at most *)
(* MaxBatch new entries.                                                   *)

MaxSigs == 2
MaxBatch == 2
MaxCalls == 2

\* Packages, Packages.gz, Sources
Filenames == { <<"P">>, <<"P", ".", "g", "z">>, <<"S">> }

\* the content (size and one-byte digest) the listed files had before, and
\* the contents a new batch may give a file
OldContent == [Size |-> 7, Checksum |-> <<10>>]
NewContents == { [Size |-> 12, Checksum |-> <<243>>], [Size |-> 130, Checksum |-> <<92>>] }

Signature(f, c) == [Checksum |-> c.Checksum, Size |-> c.Size, Filename |-> f]

OldSigs == { Signature(f, OldContent) : f \in Filenames }

\* a batch gives Packages either new content and the other files the first
AllSigs ==
    { Signature(<<"P">>, c) : c \in NewContents }
    \cup { Signature(f, [Size |-> 12, Checksum |-> <<243>>]) : f \in Filenames }

SeqsUpTo(S, lo, hi) == UNION { [1..n -> S] : n \in lo..hi }

\* values not written by updateSignature: upper-case digits, a signed size
\* and no leading "\n "; a checksum that is no hex string; a fourth token;
\* a negative size
HandWritten ==
    { <<"0", "A", SP, "+", "7", SP, "S", NL, SP, "0", "a", SP, "7", SP, "P">>,
      <<NL, SP, "z", "z", SP, "7", SP, "P">>,
      <<NL, SP, "0", "a", SP, "7", SP, "P", SP, "S">>,
      <<NL, SP, "0", "a", SP, "-", "7", SP, "P">> }

Origin == <<[Name |-> <<"O">>, Value |-> <<"x">>]>>

SigReleases ==
    {Origin}
    \cup { Set(Origin, MD5Sum, formatSignatures(l)) : l \in SeqsUpTo(OldSigs, 1, MaxSigs) }
    \cup { Set(Origin, MD5Sum, v) : v \in HandWritten }

SigInit ==
    /\ mode = "sig"
    /\ release \in SigReleases
    /\ orig = release
    /\ prev = release
    /\ batch = <<>>
    /\ earlier = <<>>
    /\ calls = 0
    /\ err = NoErr
    /\ CodecIdle
    /\ StoreIdle

\* The caller takes the outcome r of updateSignature(&release, MD5Sum, N...)
Updated(N, r) ==
    /\ release' = r.para
    /\ err' = r.err
    /\ prev' = release
    /\ batch' = N
    /\ earlier' = IF calls = 0 THEN <<>> ELSE Append(earlier, batch)
    /\ calls' = calls + 1

\* The first update of a run: updateSignature with any batch N
UpdateSignature ==
    /\ mode = "sig"
    /\ calls = 0
    /\ \E N \in SeqsUpTo(AllSigs, 1, MaxBatch) : Updated(N, updateSignature(release, MD5Sum, N))
    /\ UNCHANGED <<mode, orig>>
    /\ UNCHANGED codecVars
    /\ UNCHANGED storeVars

\* The update is run again with the identical batch
UpdateAgain ==
    /\ mode = "sig"
    /\ calls > 0
    /\ calls < MaxCalls
    /\ Updated(batch, updateSignature(release, MD5Sum, batch))
    /\ UNCHANGED <<mode, orig>>
    /\ UNCHANGED codecVars
    /\ UNCHANGED storeVars

\* A later pass merges the entry of its own index, Sources
UpdateOther ==
    /\ mode = "sig"
    /\ calls > 0
    /\ calls < MaxCalls
    /\ \E c \in NewContents :
           Updated(<<Signature(<<"S">>, c)>>,
                   updateSignature(release, MD5Sum, <<Signature(<<"S">>, c)>>))
    /\ UNCHANGED <<mode, orig>>
    /\ UNCHANGED codecVars
    /\ UNCHANGED storeVars

SigNext == UpdateSignature \/ UpdateAgain \/ UpdateOther

SigSpec == SigInit /\ [][SigNext]_vars

----------------------------------------------------------------------------
(* dedupePackages exercised on every slice of at most MaxPackages          *)
(* paragraphs drawn from Stanzas.                                          *)

MaxPackages == 3

Field(name, value) == [Name |-> name, Value |-> value]

\* a control paragraph of package n, version v, with d as its description
Stanza(n, v, d) == <<Field(Package, n), Field(Version, v), Field(Description, d)>>

\* a one-line description and one that runs over two lines
Descriptions == { <<"x">>, <<"y", NL, SP, "z">> }

\* three identities in two contents each; a paragraph that names its Version
\* first; one without Version and one without Package
Stanzas ==
    { Stanza(<<"a">>, <<"1">>, d) : d \in Descriptions }
    \cup { Stanza(<<"a">>, <<"2">>, d) : d \in Descriptions }
    \cup { Stanza(<<"b">>, <<"1">>, d) : d \in Descriptions }
    \cup { <<Field(Version, <<"1">>), Field(Package, <<"b">>)>>,
           <<Field(Package, <<"a">>)>>,
           <<Field(Version, <<"1">>), Field(Description, <<"x">>)>> }

DedupeInit ==
    /\ mode = "dedupe"
    /\ packages \in SeqsUpTo(Stanzas, 0, MaxPackages)
    /\ deduped = [err |-> NoErr, packages |-> <<>>]
    /\ calls = 0
    /\ bucket = NoBlobs
    /\ before = NoBlobs
    /\ log = <<>>
    /\ procs = <<>>
    /\ CodecIdle
    /\ release = <<>>
    /\ orig = <<>>
    /\ prev = <<>>
    /\ batch = <<>>
    /\ earlier = <<>>
    /\ err = NoErr

\* packages, err = dedupePackages(packages)
Dedupe ==
    /\ mode = "dedupe"
    /\ calls = 0
    /\ deduped' = dedupePackages(packages)
    /\ calls' = 1
    /\ UNCHANGED <<mode, packages, bucket, before, log, procs>>
    /\ UNCHANGED <<release, orig, prev, batch, earlier, err>>
    /\ UNCHANGED codecVars

DedupeNext == Dedupe

DedupeSpec == DedupeInit /\ [][DedupeNext]_vars

----------------------------------------------------------------------------
(* appendToIndex run again and again on one index key, until the runs have *)
(* uploaded MaxParagraphs paragraphs in all or one of them has failed.     *)

MaxParagraphs == 3

\* component{dist: "s", name: "m"} and its index for architecture x
TheComp == [dist |-> <<"s">>, name |-> <<"m">>]

IndexKey == binaryIndexPath(TheComp, <<"x">>)

\* what a pass may add: package a-1 in either content, and package b-1
IndexStanzas ==
    { Stanza(<<"a">>, <<"1">>, d) : d \in Descriptions }
    \cup { Stanza(<<"b">>, <<"1">>, <<"x">>) }

\* no fault, a read error other than NotFound, a failing upload of the
\* plain index, a failing upload of the gzip index
Faults == { "none", "read", "plain", "gzip" }

RECURSIVE Uploaded(_)
\* the paragraphs of all the runs of l, in upload order
Uploaded(l) == IF Len(l) = 0 THEN <<>> ELSE l[1].added \o Uploaded(Tail(l))

IndexInit ==
    /\ mode = "index"
    /\ bucket = NoBlobs
    /\ before = NoBlobs
    /\ release = Origin
    /\ orig = Origin
    /\ prev = Origin
    /\ batch = <<>>
    /\ earlier = <<>>
    /\ calls = 0
    /\ err = NoErr
    /\ log = <<>>
    /\ procs = <<>>
    /\ packages = <<>>
    /\ deduped = [err |-> NoErr, packages |-> <<>>]
    /\ CodecIdle

\* The caller takes the outcome r of appendToIndex(..., &release, key, ...)
Appended(N, fault, r) ==
    /\ bucket' = r.bucket
    /\ before' = bucket
    /\ release' = r.release
    /\ prev' = release
    /\ err' = r.err
    /\ batch' = N
    /\ UNCHANGED procs
    /\ log' = Append(log, [added |-> N, fault |-> fault, err |-> r.err, stage |-> r.stage])
    /\ calls' = calls + 1

\* One pass over the index: appendToIndex with the paragraphs N; the caller
\* makes no further pass once one has failed
AppendToIndex ==
    /\ mode = "index"
    /\ err = NoErr
    /\ \E N \in SeqsUpTo(IndexStanzas, 1, MaxParagraphs - Len(Uploaded(log))) :
       \E fault \in Faults :
           Appended(N, fault,
                    appendToIndex(bucket, TheComp.dist, release, IndexKey, ControlFields, N, fault))
    /\ UNCHANGED <<mode, orig, earlier, packages, deduped>>
    /\ UNCHANGED codecVars

IndexNext == AppendToIndex

IndexSpec == IndexInit /\ [][IndexNext]_vars

----------------------------------------------------------------------------
(* One pass of appendToIndex from every kind of stored index and Release   *)
(* paragraph, with every fault.                                            *)

\* the index and Release that an earlier pass over packages a-1 and b-1 left
EarlierPass ==
    appendToIndex(NoBlobs, TheComp.dist, Origin, IndexKey, ControlFields,
                  <<Stanza(<<"a">>, <<"1">>, <<"x">>), Stanza(<<"b">>, <<"1">>, <<"x">>)>>, "none")

\* no index yet; the index of an earlier pass; an index holding a comment
PassBuckets ==
    { NoBlobs,
      EarlierPass.bucket,
      WriteAll(NoBlobs, IndexKey, <<"#", "c", NL>>) }

\* a signature list of one line whose checksum is no hex string
BadList == <<NL, SP, "z", "z", SP, "1", SP, "f">>

\* the Release of `init` without checksum fields, the Release an earlier
\* pass left, and Releases whose template had one malformed list
PassReleases ==
    { Origin, EarlierPass.release }
    \cup { Set(Origin, k, BadList) : k \in {MD5Sum, SHA1, SHA256} }

\* nothing to add; a new content for a-1; that and b-1; a paragraph without
\* Version, alone, after and before a good one; a paragraph without Package
PassBatches ==
    { <<>>,
      <<Stanza(<<"a">>, <<"1">>, <<"y", NL, SP, "z">>)>>,
      <<Stanza(<<"a">>, <<"1">>, <<"y", NL, SP, "z">>), Stanza(<<"b">>, <<"1">>, <<"x">>)>>,
      <<<<Field(Package, <<"a">>)>>>>,
      <<Stanza(<<"b">>, <<"1">>, <<"x">>), <<Field(Package, <<"a">>)>>>>,
      <<<<Field(Package, <<"a">>)>>, Stanza(<<"b">>, <<"1">>, <<"x">>)>>,
      <<<<Field(Version, <<"1">>), Field(Description, <<"x">>)>>>> }

PassInit ==
    /\ mode = "pass"
    /\ bucket \in PassBuckets
    /\ before = bucket
    /\ release \in PassReleases
    /\ orig = release
    /\ prev = release
    /\ batch = <<>>
    /\ earlier = <<>>
    /\ calls = 0
    /\ err = NoErr
    /\ log = <<>>
    /\ procs = <<>>
    /\ packages = <<>>
    /\ deduped = [err |-> NoErr, packages |-> <<>>]
    /\ CodecIdle

\* The one pass: appendToIndex with a batch and a fault
Pass ==
    /\ mode = "pass"
    /\ calls = 0
    /\ \E N \in PassBatches : \E fault \in Faults :
           Appended(N, fault,
                    appendToIndex(bucket, TheComp.dist, release, IndexKey, ControlFields, N, fault))
    /\ UNCHANGED <<mode, orig, earlier, packages, deduped>>
    /\ UNCHANGED codecVars

PassNext == Pass

PassSpec == PassInit /\ [][PassNext]_vars

----------------------------------------------------------------------------
(* The upload command run once on a bucket that is empty, was initialised, *)
(* or holds an earlier upload, with every fault.                           *)

LocalFile(name, control, content, source) ==
    [name |-> name, control |-> control, content |-> content, source |-> source]

\* a.deb: package a for architecture x, its control file naming Version first
DebX == LocalFile(<<"a", ".", "d", "e", "b">>,
              <<"V", "e", "r", "s", "i", "o", "n", ":", SP, "1", NL,
                "P", "a", "c", "k", "a", "g", "e", ":", SP, "a", NL,
                "A", "r", "c", "h", "i", "t", "e", "c", "t", "u",
                "r", "e", ":", SP, "x", NL>>, <<"A">>, <<>>)

\* a.deb built again: the same name and control file, another content
DebXRebuilt == [DebX EXCEPT !.content = <<"Z", "Z">>]

\* b.deb: package b for architecture y
DebY == LocalFile(<<"b", ".", "d", "e", "b">>,
              <<"P", "a", "c", "k", "a", "g", "e", ":", SP, "b", NL,
                "V", "e", "r", "s", "i", "o", "n", ":", SP, "1", NL,
                "A", "r", "c", "h", "i", "t", "e", "c", "t", "u",
                "r", "e", ":", SP, "y", NL>>, <<"B", "B">>, <<>>)

\* c.deb: package c for every architecture
DebAll == LocalFile(<<"c", ".", "d", "e", "b">>,
              <<"P", "a", "c", "k", "a", "g", "e", ":", SP, "c", NL,
                "V", "e", "r", "s", "i", "o", "n", ":", SP, "1", NL,
                "A", "r", "c", "h", "i", "t", "e", "c", "t", "u",
                "r", "e", ":", SP, "a", "l", "l", NL>>, <<"C">>, <<>>)

\* s.dsc: source package s
Dsc == LocalFile(<<"s", ".", "d", "s", "c">>, <<>>, <<"S">>,
                 <<Field(Package, <<"s">>), Field(Version, <<"1">>),
                   Field(<<"F", "i", "l", "e", "s">>, <<NL, SP, "0", "a", SP, "1", SP, "t">>)>>)

\* r.txt: neither a binary nor a source package
Txt == LocalFile(<<"r", ".", "t", "x", "t">>, <<>>, <<"R">>, <<>>)

UploadPaths ==
    { <<>>, <<DebX>>, <<Dsc>>, <<Dsc, DebX>>, <<DebX, DebY>>, <<DebAll, DebX>>,
      <<DebX, DebAll>>, <<DebX, Txt>>, <<DebXRebuilt>> }

\* the orders in which the map of the architectures x and y may be ranged over
ArchOrders == { <<<<"x">>, <<"y">>>>, <<<<"y">>, <<"x">>>> }

KeyIDs == { <<>>, <<"k">> }

UploadFaults ==
    { NoFault }
    \cup { [kind |-> k, key |-> <<>>] :
             k \in {"releaseRead", "releaseWrite", "clearSign", "inReleaseWrite",
                    "detachSign", "gpgWrite"} }
    \cup { [kind |-> "pool", key |-> poolPath(DebX.name)] }
    \cup { [kind |-> k, key |-> IndexKey] : k \in {"read", "plain", "gzip"} }
    \cup { [kind |-> "gzip", key |-> sourceIndexPath(TheComp)] }

\* the bucket after `init` with a Release template naming architecture y
Initialised ==
    WriteAll(NoBlobs, indexPath(TheComp.dist),
             Save(<<Set(Origin, Architectures, <<"y">>)>>))

\* the bucket after an earlier upload of s.dsc and a.deb
EarlierUpload ==
    cmdUpload(NoBlobs, TheComp, <<>>, <<Dsc, DebX>>, <<<<"x">>, <<"y">>>>, NoFault,
              <<"S", "u", "n", SP, "1">>).bucket

\* the bucket after `init` with a template whose SHA1 list is malformed
BadlyInitialised ==
    WriteAll(NoBlobs, indexPath(TheComp.dist), Save(<<Set(Origin, SHA1, BadList)>>))

\* the bucket after an earlier upload of b.deb with the signing key k
SignedUpload ==
    cmdUpload(NoBlobs, TheComp, <<"k">>, <<DebY>>, <<<<"x">>, <<"y">>>>, NoFault,
              <<"S", "u", "n", SP, "1">>).bucket

UploadBuckets == { NoBlobs, Initialised, EarlierUpload, BadlyInitialised, SignedUpload }

UploadInit ==
    /\ mode = "upload"
    /\ bucket \in UploadBuckets
    /\ before = bucket
    /\ release = <<>>
    /\ orig = <<>>
    /\ prev = <<>>
    /\ batch = <<>>
    /\ earlier = <<>>
    /\ calls = 0
    /\ err = NoErr
    /\ log = <<>>
    /\ procs = <<>>
    /\ packages = <<>>
    /\ deduped = [err |-> NoErr, packages |-> <<>>]
    /\ CodecIdle

\* The command has returned r
Uploads(paths, keyID, order, fault, r) ==
    /\ bucket' = r.bucket
    /\ before' = bucket
    /\ release' = r.release
    /\ err' = r.err
    /\ batch' = paths
    /\ UNCHANGED procs
    /\ log' = Append(log, [paths |-> paths, keyID |-> keyID, order |-> order, fault |-> fault,
                           err |-> r.err, written |-> r.written])
    /\ calls' = calls + 1

\* aptblob upload: cmdUpload with the paths of local files
CmdUpload ==
    /\ mode = "upload"
    /\ calls = 0
    /\ \E paths \in UploadPaths : \E keyID \in KeyIDs : \E order \in ArchOrders :
       \E fault \in UploadFaults :
           Uploads(paths, keyID, order, fault,
                   cmdUpload(bucket, TheComp, keyID, paths, order, fault,
                             <<"M", "o", "n", SP, "2">>))
    /\ UNCHANGED <<mode, orig, prev, earlier, packages, deduped>>
    /\ UNCHANGED codecVars

UploadNext == CmdUpload

UploadSpec == UploadInit /\ [][UploadNext]_vars

----------------------------------------------------------------------------
(* `aptblob init` run once: on a bucket that is empty or holds the Release *)
(* of an earlier init or upload, with a template read from standard input, *)
(* with or without a signing key, and with a fault in any of its steps.    *)

\* the lines "Name:" and " entry" of a template's list with one entry
ListLines(name, sig) == <<name \o <<":">>, <<SP>> \o SigString(sig)>>

\* templates: one field; no text; a Date and an MD5Sum list; SHA1 and SHA256
\* lists; a Date alone
InitTemplates ==
    { JoinNL(<<<<"O", ":", "x">>>>),
      <<>>,
      JoinNL(<<Date \o <<":", "o", "l", "d">>, <<"O", ":", "t">>>>
             \o ListLines(MD5Sum, Signature(<<"q">>, OldContent))),
      JoinNL(ListLines(SHA1, Signature(<<"q">>, OldContent))
             \o ListLines(SHA256, Signature(<<"r">>, OldContent))),
      JoinNL(<<<<"O", ":", "x">>, Date \o <<":", "o", "l", "d">>>>) }

InitFaults ==
    { NoFault }
    \cup { [kind |-> k, key |-> <<>>] :
             k \in {"releaseRead", "releaseWrite", "clearSign", "detachSign"} }

InitNow == <<"M", "o", "n", SP, "2">>

InitInit ==
    /\ mode = "init"
    /\ bucket \in UploadBuckets
    /\ before = bucket
    /\ release = <<>>
    /\ orig = <<>>
    /\ prev = <<>>
    /\ batch = <<>>
    /\ earlier = <<>>
    /\ calls = 0
    /\ err = NoErr
    /\ log = <<>>
    /\ procs = <<>>
    /\ packages = <<>>
    /\ deduped = [err |-> NoErr, packages |-> <<>>]
    /\ CodecIdle

\* The command, given stdin, has returned r
Inits(stdin, keyID, fault, r) ==
    /\ input' = stdin
    /\ bucket' = r.bucket
    /\ before' = bucket
    /\ release' = r.release
    /\ err' = r.err
    /\ UNCHANGED procs
    /\ log' = Append(log, [keyID |-> keyID, fault |-> fault, err |-> r.err])
    /\ calls' = calls + 1

\* aptblob init: cmdInit with the template on standard input
CmdInit ==
    /\ mode = "init"
    /\ calls = 0
    /\ \E stdin \in InitTemplates : \E keyID \in KeyIDs : \E fault \in InitFaults :
           Inits(stdin, keyID, fault,
                 cmdInit(bucket, TheComp.dist, stdin, keyID, fault, InitNow))
    /\ UNCHANGED <<mode, orig, prev, batch, earlier, packages, deduped>>
    /\ UNCHANGED <<fields, parser, paragraphs, ret>>

InitNext == CmdInit

InitSpec == InitInit /\ [][InitNext]_vars

----------------------------------------------------------------------------
(* One paragraph through its life in the program: read with Single from a  *)
(* text (a binary package's control paragraph or a Release), then edited   *)
(* by at most MaxEdits calls, in any order, of the four functions that     *)
(* write to a paragraph.  When the text is rejected the paragraph is the   *)
(* empty one.                                                              *)

MaxEdits == 3

\* a control paragraph with Package second, one naming Package twice, no
\* text at all, and a Release with a one-entry MD5Sum list
ParagraphTexts ==
    { [text |-> JoinNL(<<Version \o <<":", "1">>, Package \o <<":", "a">>>>),
       fields |-> ControlFields],
      [text |-> JoinNL(<<Package \o <<":", "a">>, Package \o <<":", "b">>>>),
       fields |-> ControlFields],
      [text |-> <<>>, fields |-> ReleaseFields],
      [text |-> JoinNL(<<Components \o <<":", "x">>, MD5Sum \o <<":">>,
                         <<SP>> \o SigString(Signature(<<"P">>, OldContent))>>),
       fields |-> ReleaseFields] }

EditKeys == { Package, Components, MD5Sum }
EditValues == { <<"x">>, <<"y">> }
EditSigs == { Signature(<<"P">>, c) : c \in NewContents }

ParagraphInit ==
    /\ mode = "paragraph"
    /\ \E t \in ParagraphTexts :
           /\ input = t.text
           /\ fields = t.fields
    /\ parser = NewParser(input)
    /\ paragraphs = <<>>
    /\ ret = "none"
    /\ SigIdle
    /\ StoreIdle

\* p.Single() and, on true, p.Paragraph() taken as the paragraph to edit
ParagraphSingle ==
    /\ mode = "paragraph"
    /\ ret = "none"
    /\ Called(Single(parser, fields))
    /\ release' = IF Single(parser, fields).ret
                  THEN Paragraph(Single(parser, fields).p)
                  ELSE <<>>
    /\ orig' = release'
    /\ prev' = release'
    /\ UNCHANGED <<mode, input, fields, batch, earlier, calls, err>>
    /\ UNCHANGED storeVars

\* The caller takes the paragraph para that the call op on key left
Edited(op, key, para, e) ==
    /\ mode = "paragraph"
    /\ ret # "none"
    /\ calls < MaxEdits
    /\ release' = para
    /\ err' = e
    /\ prev' = release
    /\ batch' = [op |-> op, key |-> key]
    /\ calls' = calls + 1
    /\ UNCHANGED <<mode, orig, earlier>>
    /\ UNCHANGED codecVars
    /\ UNCHANGED storeVars

\* para.Set(k, v)
ParagraphSet ==
    \E k \in EditKeys, v \in EditValues : Edited("Set", k, Set(release, k, v), NoErr)

\* addToTokenSet(&para, k, v)
AddToTokenSet ==
    \E k \in EditKeys, v \in EditValues :
        Edited("addToTokenSet", k, addToTokenSet(release, k, v), NoErr)

\* updateSignature(&para, "MD5Sum", sig), the paragraph left as it is on error
UpdateOneSignature ==
    \E sig \in EditSigs :
        Edited("updateSignature", MD5Sum,
               updateSignature(release, MD5Sum, <<sig>>).para,
               updateSignature(release, MD5Sum, <<sig>>).err)

\* promotePackageField(para)
PromotePackageField ==
    Edited("promotePackageField", Package, promotePackageField(release), NoErr)

ParagraphNext ==
    \/ ParagraphSingle
    \/ ParagraphSet
    \/ AddToTokenSet
    \/ UpdateOneSignature
    \/ PromotePackageField

ParagraphSpec == ParagraphInit /\ [][ParagraphNext]_vars

----------------------------------------------------------------------------
(* Claims about the codec.                                                 *)

\* The caller's Next loop has ended and p.Err() is nil
Accepted == mode = "codec" /\ ret = "false" /\ parser.err = NoErr

\* C1: whenever the parser accepts a text without error, yielding the
\* paragraphs P, parsing Save(P) under the same field-type mapping succeeds
\* and yields exactly P again.
C1_RoundTrip ==
    Accepted => ParseAll(Save(paragraphs), fields) =
                    [err |-> NoErr, paragraphs |-> paragraphs]

\* Two paragraphs were accepted, one of them holding a value that spans lines.
C1_Witness ==
    /\ Accepted
    /\ Len(paragraphs) >= 2
    /\ \E i \in 1..Len(paragraphs) : \E j \in 1..Len(paragraphs[i]) :
           IndexByte(paragraphs[i][j].Value, NL) # -1

----------------------------------------------------------------------------
(* Claims about the signature-list merge.                                  *)

\* The entries of the paragraph's MD5Sum list (one-byte digests)
SigsOf(para) == ParseIndexSignatures(Get(para, MD5Sum), 1).sigs

Names(sigs) == { sigs[i].Filename : i \in 1..Len(sigs) }

\* At least k calls of updateSignature were made and the last returned nil
Merged(k) == mode = "sig" /\ calls >= k /\ err = NoErr

\* The last call was given the batch of the call before it
Repeated == Merged(2) /\ earlier[Len(earlier)] = batch

\* The filenames that the batches of the calls so far have named
Named == Names(batch) \cup UNION { Names(earlier[k]) : k \in 1..Len(earlier) }

RECURSIVE FirstAbsent(_, _)
\* The entries of N whose filename is not in seen, one per filename (the
\* first), in the order of N
FirstAbsent(N, seen) ==
    IF Len(N) = 0 THEN <<>>
    ELSE IF N[1].Filename \in seen THEN FirstAbsent(Tail(N), seen)
    ELSE <<N[1]>> \o FirstAbsent(Tail(N), seen \cup {N[1].Filename})

\* C2: a second updateSignature call with the same batch N (any batch, two
\* entries of which may carry the same filename) leaves the field value as
\* the first call left it.
C2_Idempotent == Repeated => Get(release, MD5Sum) = Get(prev, MD5Sum)

\* S's entries that no batch in names has named are in R at their index
unrelatedKept(S, R, names) ==
    \A i \in 1..Len(S) :
        S[i].Filename \notin names => (i <= Len(R) /\ R[i] = S[i])

\* C3: every entry of the original list whose filename no batch has named is
\* still at its index with its filename, size and checksum, after one merge
\* and after every further one.
C3_Unrelated ==
    Merged(1) => unrelatedKept(SigsOf(orig), SigsOf(release), Named)

\* A named entry of S was replaced ahead of an unrelated one, and R is longer
replacedAndAppended(S, R, names) ==
    /\ Len(R) > Len(S)
    /\ \E i, j \in 1..Len(S) :
           /\ j < i
           /\ S[i].Filename \notin names
           /\ S[j].Filename \in names
           /\ R[j] # S[j]

\* After two merges with different batches an unrelated entry follows a
\* replaced one, and an entry was appended.
C3_Witness ==
    /\ Merged(2)
    /\ earlier[1] # batch
    /\ replacedAndAppended(SigsOf(orig), SigsOf(release), Named)

\* R keeps S's filenames at S's indexes, and every entry of R with the
\* filename of an entry of N is that entry
replacedInPlace(S, R, N) ==
    /\ Len(R) >= Len(S)
    /\ \A i \in 1..Len(S) : R[i].Filename = S[i].Filename
    /\ \A i \in 1..Len(R) : \A j \in 1..Len(N) :
           R[i].Filename = N[j].Filename => R[i] = N[j]

\* C4: with pairwise distinct filenames in the batch, every entry of the
\* result that has the filename of a batch entry has that entry's size and
\* checksum, and the entries of the existing list keep their index.
C4_ReplacedInPlace ==
    (Merged(1) /\ Cardinality(Names(batch)) = Len(batch)) =>
        replacedInPlace(SigsOf(prev), SigsOf(release), batch)

\* R is S's filenames followed by the first entries of N for absent filenames
appended(S, R, N) ==
    /\ Len(R) = Len(S) + Cardinality(Names(N) \ Names(S))
    /\ \A i \in 1..Len(S) : R[i].Filename = S[i].Filename
    /\ SubSeq(R, Len(S) + 1, Len(R)) = FirstAbsent(N, Names(S))

\* C5: the batch entries whose filename the existing list lacks follow the
\* |S| existing entries, one per filename, in the order of the batch, and
\* the result has |S| + (number of distinct absent filenames) entries.
C5_Appended ==
    Merged(1) => appended(SigsOf(prev), SigsOf(release), batch)

\* S = [Sources, stale Packages], N = [Packages, Packages.gz] and
\* R = [Sources, Packages, Packages.gz]
mergeExample(S, R, N) ==
    /\ Len(S) = 2
    /\ S[1].Filename = <<"S">>
    /\ S[2] = Signature(<<"P">>, OldContent)
    /\ Len(N) = 2
    /\ N[1].Filename = <<"P">>
    /\ N[2].Filename = <<"P", ".", "g", "z">>
    /\ R = <<S[1], N[1], N[2]>>

\* The example of the merge was run.
C5_Witness ==
    Merged(1) /\ mergeExample(SigsOf(prev), SigsOf(release), batch)

----------------------------------------------------------------------------
(* Claims about dedupePackages.                                            *)

\* dedupePackages has returned
Deduped == mode = "dedupe" /\ calls = 1

Identified(X) ==
    \A k \in 1..Len(X) :
        packageVersion(X[k]).name # <<>> /\ packageVersion(X[k]).version # <<>>

Identities(X) == { packageVersion(X[k]) : k \in 1..Len(X) }

\* the positions of identity v in X
Positions(X, v) == { k \in 1..Len(X) : packageVersion(X[k]) = v }

Max(S) == CHOOSE k \in S : \A j \in S : j <= k
Min(S) == CHOOSE k \in S : \A j \in S : k <= j

\* R lists every identity of X once, with the last paragraph X has for it
lastOfEach(X, r) ==
    /\ r.err = NoErr
    /\ Len(r.packages) <= Len(X)
    /\ Identities(r.packages) = Identities(X)
    /\ \A v \in Identities(X) :
           /\ Cardinality(Positions(r.packages, v)) = 1
           /\ \A i \in Positions(r.packages, v) : r.packages[i] = X[Max(Positions(X, v))]

\* C6: for a slice whose paragraphs all have a Package and a Version, the
\* result is no longer than the slice, lists every (Package, Version) of the
\* slice exactly once, and holds for it the last paragraph of that identity.
C6_DedupIdentity == (Deduped /\ Identified(packages)) => lastOfEach(packages, deduped)

\* An identity occurred twice with different contents, between them another
C6_Witness ==
    /\ Deduped
    /\ Len(packages) = 3
    /\ Identified(packages)
    /\ packageVersion(packages[1]) = packageVersion(packages[3])
    /\ packages[1] # packages[3]
    /\ packageVersion(packages[1]) # packageVersion(packages[2])
    /\ Len(deduped.packages) = 2

\* R's identities are in the order of their first positions in X
firstSeenOrder(X, r) ==
    /\ r.err = NoErr
    /\ \A i, j \in 1..Len(r.packages) :
           i < j <=> Min(Positions(X, packageVersion(r.packages[i])))
                       < Min(Positions(X, packageVersion(r.packages[j])))

\* C7: the identities of the result are in the order of their first
\* occurrence in the slice, whichever occurrence supplied the content.
C7_DedupOrder == (Deduped /\ Identified(packages)) => firstSeenOrder(packages, deduped)

\* The slice [A, B, A'] gave [A', B]
C7_Witness ==
    /\ Deduped
    /\ Len(packages) = 3
    /\ Identified(packages)
    /\ packageVersion(packages[1]) = packageVersion(packages[3])
    /\ packages[1] # packages[3]
    /\ packageVersion(packages[1]) # packageVersion(packages[2])
    /\ deduped.packages = <<packages[3], packages[2]>>

----------------------------------------------------------------------------
(* Claims about the index update pass.                                     *)

\* Every run so far returned nil
AllSucceeded == \A k \in 1..Len(log) : log[k].err = NoErr

\* the stored index parses to the paragraphs want
storedIs(stored, want) ==
    stored.err = NoErr /\ want.err = NoErr /\ stored.paragraphs = want.packages

\* the paragraphs of X whose identity none of N has, in the order of X
NotNamed(X, N) == SelectSeq(X, LAMBDA p : packageVersion(p) \notin Identities(N))

\* the identities that the last run did not name are where they were
othersKept(old, new, N) == NotNamed(old.paragraphs, N) = NotNamed(new.paragraphs, N)

\* C8: after runs of appendToIndex that all succeeded, the stored index is
\* dedupePackages of all the paragraphs the runs uploaded, in upload order,
\* and the identities the last run did not name kept content and order.
C8_ExactlyOnce ==
    (mode = "index" /\ calls >= 1 /\ AllSucceeded) =>
        /\ IndexKey \in DOMAIN bucket
        /\ storedIs(ParseAll(bucket[IndexKey], ControlFields), dedupePackages(Uploaded(log)))
        /\ othersKept(downloadIndex(before, IndexKey, ControlFields, "none"),
                      ParseAll(bucket[IndexKey], ControlFields), batch)

\* Three runs: package a, then package b, then package a in other content
C8_Witness ==
    /\ mode = "index"
    /\ calls = 3
    /\ AllSucceeded
    /\ packageVersion(log[1].added[1]) = packageVersion(log[3].added[1])
    /\ log[1].added[1] # log[3].added[1]
    /\ packageVersion(log[2].added[1]) # packageVersion(log[1].added[1])
    /\ ParseAll(bucket[IndexKey], ControlFields).paragraphs = <<log[3].added[1], log[2].added[1]>>

\* the three signature fields of r are those of p
sameSignatures(p, r) == \A k \in {MD5Sum, SHA1, SHA256} : Get(r, k) = Get(p, k)

\* C10: when a pass of appendToIndex fails, at whatever stage, the MD5Sum,
\* SHA1 and SHA256 fields of the Release paragraph are as they were before
\* the pass.
C10_NoPartialMutation ==
    (mode = "pass" /\ calls = 1 /\ err # NoErr) => sameSignatures(prev, release)

----------------------------------------------------------------------------
(* Claims about the upload command.                                        *)

\* the key relative to the distribution directory
DistPath(key) == TrimPrefix(key, distDir(TheComp.dist) \o <<"/">>)

\* the list of the field holds an entry for key with this checksum and size
listed(rel, field, key, checksum, size) ==
    \E i \in 1..Len(ParseIndexSignatures(Get(rel, field), 1).sigs) :
        ParseIndexSignatures(Get(rel, field), 1).sigs[i]
            = IndexSignature(DistPath(key), checksum, size)

\* the three lists of rel hold the size and digests h of the blob under key
blobListed(rel, key, h) ==
    /\ listed(rel, MD5Sum, key, h.md5, h.size)
    /\ listed(rel, SHA1, key, h.sha1, h.size)
    /\ listed(rel, SHA256, key, h.sha256, h.size)

\* the stored Release lists every index of keys, plain and gzip, as stored
signaturesMatch(b, stored, keys) ==
    /\ stored.err = NoErr
    /\ \A i \in 1..Len(keys) : \A key \in {keys[i], keys[i] \o gzipExtension} :
           /\ key \in DOMAIN b
           /\ blobListed(stored.para, key, indexHashes(b[key]))

\* C9: after cmdUpload returned nil, the stored Release has in MD5Sum, SHA1
\* and SHA256 an entry for every index the command wrote and for its .gz,
\* under the path relative to the distribution directory, with the size and
\* the digest of the blob stored under that key.
C9_SignaturesMatch ==
    (mode = "upload" /\ calls = 1 /\ err = NoErr) =>
        signaturesMatch(bucket, downloadReleaseIndex(bucket, TheComp.dist, NoFault),
                        log[1].written)

\* The Packages index of x left by an earlier upload was written anew with
\* another content, the Release naming a Sources index as well
C9_Witness ==
    /\ mode = "upload"
    /\ calls = 1
    /\ err = NoErr
    /\ IndexKey \in DOMAIN before
    /\ sourceIndexPath(TheComp) \in DOMAIN before
    /\ \E i \in 1..Len(log[1].written) : log[1].written[i] = IndexKey
    /\ bucket[IndexKey] # before[IndexKey]

----------------------------------------------------------------------------
\* the key of a package artifact
IsPoolKey(k) == HasPrefix(k, poolPath(<<>>))

\* C11: a blob stored under a pool/<filename> key keeps the content first
\* stored there: an upload to that key of a content with another size or MD5
\* fails and does not overwrite it, and one of the same content succeeds and
\* leaves it as it is.
C11_PoolImmutable ==
    (mode = "upload" /\ calls = 1) =>
        \A k \in DOMAIN before :
            IsPoolKey(k) =>
                /\ bucket[k] = before[k]
                /\ \A i \in 1..Len(batch) :
                       (poolPath(batch[i].name) = k /\ batch[i].content # before[k])
                           => err # NoErr

----------------------------------------------------------------------------
\* the pass over stored and new paragraphs of which one has no identity
unidentifiedPass(stored, N) ==
    /\ Len(N) > 0
    /\ stored.err = NoErr
    /\ ~Identified(stored.paragraphs \o N)

\* dedupePackages returned the error and nothing else, and the pass ended
\* there: no blob written, the Release paragraph as it was
abortedAtDedupe(d) ==
    /\ d = [err |-> NoPackageVersion, packages |-> <<>>]
    /\ err = NoPackageVersion
    /\ log[1].stage = "dedupe"
    /\ bucket = before
    /\ release = prev

\* C12: when a paragraph of the input, at any position, has no Package or
\* no Version, dedupePackages returns an error and no sequence, and
\* appendToIndex returns it before uploading an index blob and before
\* changing a signature field of the Release.
C12_DedupAllOrNothing ==
    (mode = "pass" /\ calls = 1 /\ log[1].fault # "read"
     /\ unidentifiedPass(downloadIndex(before, IndexKey, ControlFields, "none"), batch)) =>
        abortedAtDedupe(dedupePackages(
            downloadIndex(before, IndexKey, ControlFields, "none").paragraphs \o batch))

\* A pass over a stored index of two packages failed on the second of two
\* new paragraphs, which has no Version
C12_Witness ==
    /\ mode = "pass"
    /\ calls = 1
    /\ IndexKey \in DOMAIN before
    /\ Len(batch) = 2
    /\ Identified(<<batch[1]>>)
    /\ ~Identified(<<batch[2]>>)
    /\ err = NoPackageVersion
    /\ bucket = before

----------------------------------------------------------------------------
\* the 1-based positions of the lines that begin with '#'
CommentLines(lines) == { i \in 1..Len(lines) : Len(lines[i]) > 0 /\ lines[i][1] = "#" }

\* a line that is empty or holds only spaces and tabs
OnlyBlanks(line) == \A k \in 1..Len(line) : line[k] = SP \/ line[k] = TAB

\* the runs of non-blank lines that end before line c
RunsBefore(lines, c) ==
    { i \in 1..(c - 1) : ~OnlyBlanks(lines[i]) /\ OnlyBlanks(lines[i + 1]) }

\* no paragraph that holds or follows the first comment line was returned,
\* and the call that returned false left an error
commentRejected(lines) ==
    CommentLines(lines) # {} =>
        /\ Len(paragraphs) <= Cardinality(RunsBefore(lines, Min(CommentLines(lines))))
        /\ ret = "false" => parser.err # NoErr

\* C13: when a line of the input begins with '#', wherever it stands,
\* iterating the parser ends with an error, and no paragraph that holds or
\* follows that line is returned.
C13_CommentsRejected == mode = "codec" => commentRejected(Split(input))

\* A first paragraph was returned and the second one, whose comment follows
\* a field line, was rejected as holding a comment
C13_Witness ==
    /\ mode = "codec"
    /\ Len(paragraphs) = 1
    /\ ret = "false"
    /\ parser.err.kind = "comments not allowed"
    /\ Min(CommentLines(Split(input))) = 4

----------------------------------------------------------------------------
\* the positions at which a maximal run of non-blank lines starts, in order
RunStarts(lines) ==
    LET S == { i \in 1..Len(lines) :
                 ~OnlyBlanks(lines[i]) /\ (i = 1 \/ OnlyBlanks(lines[i - 1])) }
    IN [k \in 1..Cardinality(S) |->
           CHOOSE i \in S : Cardinality({ j \in S : j < i }) = k - 1]

\* the run of non-blank lines that starts at line i
Run(lines, i) ==
    SubSeq(lines, i,
           Min({ j \in i..Len(lines) : j = Len(lines) \/ OnlyBlanks(lines[j + 1]) }))

\* the names before the colon of the lines of a run that are no continuation
\* lines, in order
FieldNames(run) ==
    [k \in 1..Len(SelectSeq(run, LAMBDA l : l[1] \notin {SP, TAB})) |->
        Slice(SelectSeq(run, LAMBDA l : l[1] \notin {SP, TAB})[k], 0,
              IndexByte(SelectSeq(run, LAMBDA l : l[1] \notin {SP, TAB})[k], ":"))]

RECURSIVE runsParsed(_, _, _, _, _)
\* the k-th run parsed alone gave r
runParsed(lines, starts, k, acc, Fields, r) ==
    IF r.err # NoErr THEN [failed |-> TRUE, paragraphs |-> acc]
    ELSE IF Len(r.paragraphs) # 1
            \/ [j \in 1..Len(r.paragraphs[1]) |-> r.paragraphs[1][j].Name]
                   # FieldNames(Run(lines, starts[k]))
    THEN [failed |-> TRUE, paragraphs |-> <<"not one paragraph of the run's fields">>]
    ELSE runsParsed(lines, starts, k + 1, acc \o r.paragraphs, Fields)

\* each run parsed alone, from the k-th on, up to the first that fails
runsParsed(lines, starts, k, acc, Fields) ==
    IF k > Len(starts) THEN [failed |-> FALSE, paragraphs |-> acc]
    ELSE runParsed(lines, starts, k, acc, Fields,
                   ParseAll(JoinNL(Run(lines, starts[k])), Fields))

\* what the iteration returned is what the runs give one by one, and so it
\* is for the same text with one more newline at its end
splitAsRuns(expected, withNewline) ==
    /\ paragraphs = expected.paragraphs
    /\ (parser.err # NoErr) = expected.failed
    /\ withNewline.paragraphs = paragraphs
    /\ (withNewline.err # NoErr) = expected.failed

\* the iteration with Next has ended, in no error that only Single gives
Iterated ==
    /\ mode = "codec"
    /\ ret = "false"
    /\ parser.err.kind \notin {"unexpected EOF", "multiple paragraphs encountered",
                               "Single called after Next"}

\* C14: the parser returns one paragraph for each maximal run of non-blank
\* lines, in input order and with the run's fields in their order, until a
\* run fails to parse; lines that are empty or hold only spaces and tabs
\* give no paragraph and no error wherever they stand, and a final newline
\* more or less changes nothing.
C14_ParagraphSplitting ==
    Iterated =>
        splitAsRuns(runsParsed(Split(input), RunStarts(Split(input)), 1, <<>>, fields),
                    ParseAll(input \o <<NL>>, fields))

\* Two paragraphs were returned from a text that starts with a blank line,
\* has a line of blanks between the runs and no final newline
C14_Witness ==
    /\ Iterated
    /\ parser.err = NoErr
    /\ Len(paragraphs) = 2
    /\ Len(Split(input)) = 4
    /\ Split(input)[1] = <<>>
    /\ Split(input)[3] = <<SP>>

\* a line that continues the field above it
IsContinuation(line) == Len(line) > 0 /\ (line[1] = SP \/ line[1] = TAB)

\* the line of a run on which its j-th field starts
FieldStart(run, j) ==
    CHOOSE i \in 1..Len(run) :
        /\ ~IsContinuation(run[i])
        /\ Cardinality({ h \in 1..i : ~IsContinuation(run[h]) }) = j

\* the last line of the field that starts on line i of a run
FieldEnd(run, i) ==
    CHOOSE e \in i..Len(run) :
        /\ \A h \in (i + 1)..e : IsContinuation(run[h])
        /\ e = Len(run) \/ ~IsContinuation(run[e + 1])

\* the text after the first colon of s
AfterColon(s) == SubSeq(s, IndexByte(s, ":") + 2, Len(s))

\* the text after the colon of the field that starts on line i of a run, its
\* continuation lines included
RawValue(run, i) == AfterColon(JoinNL(SubSeq(run, i, FieldEnd(run, i))))

\* s without the spaces and tabs it starts with
LeadingBlanksDropped(s) ==
    IF OnlyBlanks(s) THEN <<>>
    ELSE SubSeq(s, Min({ k \in 1..Len(s) : s[k] # SP /\ s[k] # TAB }), Len(s))

\* the value of the j-th field of the paragraph parsed from a run
valueIs(para, run, j, expected(_)) ==
    para[j].Value = expected(RawValue(run, FieldStart(run, j)))

\* every Multiline field of the paragraphs yielded has its text after the
\* colon, less the leading blanks
multilineVerbatim(lines, starts) ==
    \A k \in 1..Len(paragraphs) : \A j \in 1..Len(paragraphs[k]) :
        FieldTypeOf(fields, paragraphs[k][j].Name) = Multiline =>
            valueIs(paragraphs[k], Run(lines, starts[k]), j, LeadingBlanksDropped)

\* C15: a Multiline field's parsed value is the text after the colon over its
\* first line and its continuation lines, newlines and the continuation
\* lines' leading blanks kept, with only the spaces and tabs next to the colon
\* removed and nothing removed from the end of the last line.
C15_MultilineVerbatim ==
    Iterated => multilineVerbatim(Split(input), RunStarts(Split(input)))

\* the lines of a run that start a field whose name is Simple under Fields
\* and that a continuation line follows
SimpleContinued(run, Fields) ==
    { i \in 1..(Len(run) - 1) :
        /\ ~IsContinuation(run[i])
        /\ IndexByte(run[i], ":") # -1
        /\ FieldTypeOf(Fields, SubSeq(run[i], 1, IndexByte(run[i], ":"))) = Simple
        /\ IsContinuation(run[i + 1]) }

\* the Simple fields of the paragraph parsed from a run take one line each
\* and hold the text after the colon, trimmed
simpleValues(para, run) ==
    \A j \in 1..Len(para) :
        FieldTypeOf(fields, para[j].Name) = Simple =>
            /\ FieldEnd(run, FieldStart(run, j)) = FieldStart(run, j)
            /\ valueIs(para, run, j, LAMBDA v : Trim(v, {SP, TAB}))

simpleSingleLine(lines, starts) ==
    /\ \A k \in 1..Len(paragraphs) : simpleValues(paragraphs[k], Run(lines, starts[k]))
    /\ (\E k \in 1..Len(starts) : SimpleContinued(Run(lines, starts[k]), fields) # {})
           => parser.err # NoErr

\* C16: a field whose name is typed Simple, or has no type, followed by a
\* continuation line makes the parse fail with an error; otherwise its value
\* is the text after the first colon without the spaces and tabs around it.
C16_SimpleSingleLine ==
    Iterated => simpleSingleLine(Split(input), RunStarts(Split(input)))

\* "a: x " was parsed to the value "x", and after a blank line the same field
\* with a continuation line failed the parse
C16_Witness ==
    /\ Iterated
    /\ FieldTypeOf(fields, <<"a">>) = Simple
    /\ paragraphs = << <<[Name |-> <<"a">>, Value |-> <<"x">>]>> >>
    /\ Len(Split(input)) = 4
    /\ SimpleContinued(Run(Split(input), 3), fields) = {1}
    /\ parser.err.kind = "must be a single line"

----------------------------------------------------------------------------
(* Claims about the fields of one paragraph.                               *)

FieldNameSeq(para) == [i \in 1..Len(para) |-> para[i].Name]

UniqueNames(para) ==
    \A i, j \in 1..Len(para) : para[i].Name = para[j].Name => i = j

\* new has the fields of old in their places, all but the field named key
\* with their values
changedInPlace(old, new, key) ==
    /\ FieldNameSeq(new) = FieldNameSeq(old)
    /\ \A i \in 1..Len(old) : old[i].Name # key => new[i] = old[i]

\* new is old, or old followed by one field named key
appendedIfAny(old, new, key) ==
    \/ new = old
    \/ /\ Len(new) = Len(old) + 1
       /\ SubSeq(new, 1, Len(old)) = old
       /\ new[Len(new)].Name = key

\* new holds the fields of old, each once
reordered(old, new) ==
    /\ Len(new) = Len(old)
    /\ { new[i] : i \in 1..Len(new) } = { old[i] : i \in 1..Len(old) }

\* what the call op on key made of the paragraph old
editedInPlace(old, new, op, key) ==
    IF op = "promotePackageField" THEN reordered(old, new)
    ELSE IF \E i \in 1..Len(old) : old[i].Name = key
    THEN changedInPlace(old, new, key)
    ELSE appendedIfAny(old, new, key)

\* C17: no paragraph the program holds has two fields of one name: the parser
\* fails on a repeated name, and Paragraph.Set, addToTokenSet, updateSignature
\* and promotePackageField, in any sequence, keep the names distinct; a call
\* on a name changes the value of that field when the paragraph has it and
\* appends one field at the end only when it has not.
C17_UniqueFieldNames ==
    mode = "paragraph" =>
        /\ UniqueNames(release)
        /\ (ret = "false" /\ calls = 0) => parser.err # NoErr /\ release = <<>>
        /\ calls > 0 => editedInPlace(prev, release, batch.op, batch.key)

\* a paragraph read from a text, given a field it had not and then a new
\* value in a field it had
C17_Witness ==
    /\ mode = "paragraph"
    /\ ret = "true"
    /\ calls = MaxEdits
    /\ Len(release) > Len(orig)
    /\ Len(release) = Len(prev)
    /\ release # prev
    /\ batch.op = "addToTokenSet"

----------------------------------------------------------------------------
(* Claims about Parser.Single.                                             *)

\* the text holds one run of non-blank lines, which parses
OneParagraph(text, Fields) ==
    /\ Len(RunStarts(Split(text))) = 1
    /\ ParseAll(text, Fields).err = NoErr

\* Single returned true: the text holds one paragraph, now p.Paragraph()
singleTrue(p, all) ==
    /\ OneParagraph(input, fields)
    /\ all.paragraphs = <<Paragraph(p)>>

\* Single returned false: p.Err() is not nil and p.Paragraph() is empty
singleFalse(p) ==
    /\ p.err # NoErr
    /\ Paragraph(p) = <<>>

\* what a call of Single that returned r left in the parser p
singleContract(r, p) ==
    IF r = "true" THEN singleTrue(p, ParseAll(input, fields)) ELSE singleFalse(p)

\* C18: Single returns true only when the input holds exactly one paragraph,
\* and Paragraph() is then that paragraph; when it returns false (no
\* paragraph, more than one, a syntax error) Err() is not nil and Paragraph()
\* is empty.
C18_SingleParagraph == [][ParserSingle => singleContract(ret', parser')]_vars

\* Single has met a second paragraph
C18_Witness ==
    /\ mode = "codec"
    /\ ret = "false"
    /\ parser.err.kind = "multiple paragraphs encountered"
    /\ paragraphs = <<>>
    /\ Len(ParseAll(input, fields).paragraphs) = 2

----------------------------------------------------------------------------
(* Claims about the layout of what Save writes.                            *)

\* "Name: Value", or "Name:" and the value when the trimmed value v begins
\* with a newline
NameValue(name, v) ==
    IF HasPrefix(v, <<NL>>) THEN name \o <<":">> \o v ELSE name \o <<":", SP>> \o v

\* the lines of a run from the one on which its j-th field starts to the
\* last of that field
FieldText(run, j) ==
    JoinNL(SubSeq(run, FieldStart(run, j), FieldEnd(run, FieldStart(run, j))))

\* the run holds the fields of para, each starting a line of its own
fieldsLaidOut(para, run) ==
    /\ Cardinality({ i \in 1..Len(run) : ~IsContinuation(run[i]) }) = Len(para)
    /\ \A j \in 1..Len(para) :
           FieldText(run, j) = NameValue(para[j].Name, Trim(para[j].Value, {SP, TAB}))

\* out, of the given lines and runs, is the layout of the paragraphs ps
savedLayout(ps, out, lines, starts) ==
    IF Len(ps) = 0 THEN out = <<>>
    ELSE /\ Len(out) >= 2
         /\ out[Len(out)] = NL
         /\ out[Len(out) - 1] # NL
         /\ Len(starts) = Len(ps)
         /\ starts[1] = 1
         /\ \A k \in 1..(Len(ps) - 1) :
                /\ starts[k + 1] = starts[k] + Len(Run(lines, starts[k])) + 1
                /\ lines[starts[k + 1] - 1] = <<>>
         /\ \A k \in 1..Len(ps) : fieldsLaidOut(ps[k], Run(lines, starts[k]))

----------------------------------------------------------------------------
(* Claims about the acceptance of a signature list.                        *)

Digits == { HexLower[k] : k \in 1..10 }

\* a string of 2 * digestSize hexadecimal digits
IsChecksum(t, digestSize) ==
    /\ Len(t) = 2 * digestSize
    /\ \A k \in 1..Len(t) : \E h \in 1..16 : t[k] = HexLower[h] \/ t[k] = HexUpper[h]

\* a decimal integer that is not negative, written with or without a "+"
IsSize(t) ==
    /\ Len(TrimPrefix(t, <<"+">>)) > 0
    /\ \A k \in 1..Len(TrimPrefix(t, <<"+">>)) : TrimPrefix(t, <<"+">>)[k] \in Digits

\* the tokens of a line are a checksum, a size and a filename
IsEntry(tokens, digestSize) ==
    /\ Len(tokens) = 3
    /\ IsChecksum(tokens[1], digestSize)
    /\ IsSize(tokens[2])

\* every line of the value that is not blank is an entry
ListWellFormed(lines, digestSize) ==
    \A i \in 1..Len(lines) :
        IsBlank(lines[i]) \/ IsEntry(stringsFields(lines[i]), digestSize)

\* C20: ParseIndexSignatures succeeds exactly when every line of the value
\* that is not blank has three tokens, the first a hexadecimal string of
\* twice the digest size and the second a decimal integer that is not
\* negative; otherwise the parse fails and the list is left as it was.
C20_SignatureListAcceptance ==
    (mode = "sig" /\ calls > 0) =>
        /\ err = NoErr <=> ListWellFormed(Split(Get(prev, MD5Sum)), Len(batch[1].Checksum))
        /\ err # NoErr => release = prev

----------------------------------------------------------------------------
(* Claims about writing a signature list and reading it back.              *)

\* entries with a checksum of the digest size, a size that is not negative
\* and a filename that is not empty and holds no white space
Formattable(sigs, digestSize) ==
    \A i \in 1..Len(sigs) :
        /\ Len(sigs[i].Checksum) = digestSize
        /\ sigs[i].Size >= 0
        /\ Len(sigs[i].Filename) > 0
        /\ \A k \in 1..Len(sigs[i].Filename) : ~IsSpace(sigs[i].Filename[k])

\* the entries written as a field value, one line each, parse to themselves
readBack(sigs, digestSize) ==
    Formattable(sigs, digestSize) =>
        ParseIndexSignatures(formatSignatures(sigs), digestSize) =
            [err |-> NoErr, sigs |-> sigs]

\* the list updateSignature wrote for the entries sigs parses to sigs
writtenReadBack(sigs, digestSize) ==
    Formattable(sigs, digestSize) =>
        ParseIndexSignatures(Get(release, MD5Sum), digestSize) =
            [err |-> NoErr, sigs |-> sigs]

\* C21: a sequence of signatures with checksums of the digest size, sizes
\* that are not negative and filenames free of white space, written with
\* IndexSignature.String one entry a line as updateSignature writes it, is
\* parsed by ParseIndexSignatures to the same sequence in the same order.
C21_SignatureRoundTrip ==
    (mode = "sig" /\ calls > 0) =>
        /\ readBack(batch, 1)
        /\ err = NoErr => writtenReadBack(mergeSignatures(SigsOf(prev), batch), 1)

\* a list of three entries, one of them with a size of three digits, was
\* written and read back
C21_Witness ==
    /\ Merged(1)
    /\ Len(SigsOf(release)) = 3
    /\ Formattable(SigsOf(release), 1)
    /\ \E i \in 1..3 : SigsOf(release)[i].Size = 130
    /\ SigsOf(release) = mergeSignatures(SigsOf(prev), batch)

----------------------------------------------------------------------------
(* Claims about `init`.                                                    *)

\* the Release stored in bucket b, the empty paragraph when there is none
StoredRelease(b) ==
    IF indexPath(TheComp.dist) \in DOMAIN b
    THEN ParseReleaseIndex(b[indexPath(TheComp.dist)]).para
    ELSE <<>>

SumFields == { MD5Sum, SHA1, SHA256 }

\* init has returned nil
InitDone == mode = "init" /\ calls = 1 /\ err = NoErr

\* the lists of the Release stored before are the lists stored now
sumsPreserved(old, stored) ==
    \A k \in SumFields : Get(old, k) # <<>> => Get(stored, k) = Get(old, k)

\* the fields of the template, but those a list of the old Release replaces
\* and those named in except, are stored with the template's value
templateStored(template, old, stored, except) ==
    \A i \in 1..Len(template) :
        \/ template[i].Name \in except
        \/ template[i].Name \in SumFields /\ Get(old, template[i].Name) # <<>>
        \/ Get(stored, template[i].Name) = template[i].Value

\* C22 as stated: init stores a Release whose MD5Sum, SHA1 and SHA256 are
\* those of the Release stored before where that had them, and in which
\* every other field of the template has the template's value.
C22_InitPreserves ==
    InitDone =>
        /\ sumsPreserved(StoredRelease(before), StoredRelease(bucket))
        /\ templateStored(ParseReleaseIndex(input).para, StoredRelease(before),
                          StoredRelease(bucket), {})

\* C22, amended: init stores a Release whose MD5Sum, SHA1 and SHA256 are
\* those of the Release stored before where that had them, whose Date is the
\* time of the run, and in which every other field of the template has the
\* template's value.
C22_InitPreservesButDate ==
    InitDone =>
        /\ sumsPreserved(StoredRelease(before), StoredRelease(bucket))
        /\ templateStored(ParseReleaseIndex(input).para, StoredRelease(before),
                          StoredRelease(bucket), {Date})
        /\ Get(StoredRelease(bucket), Date) = InitNow

\* the Release stored before had an MD5Sum list and so had the template,
\* another one; the template had a Date
C22_Witness ==
    /\ InitDone
    /\ Get(StoredRelease(before), MD5Sum) # <<>>
    /\ Get(ParseReleaseIndex(input).para, MD5Sum) # <<>>
    /\ Get(ParseReleaseIndex(input).para, MD5Sum) # Get(StoredRelease(before), MD5Sum)
    /\ Get(ParseReleaseIndex(input).para, Date) # <<>>
    /\ Get(StoredRelease(bucket), <<"O">>) = <<"t">>

----------------------------------------------------------------------------
(* Claims about the line a parse error names.                              *)

\* the iteration ended in a syntax error
SyntaxError == Iterated /\ parser.err # NoErr

\* the error names the line that is the offending one (the line the error
\* names when the run is parsed as a text of its own) of the run starting on
\* line start, less `lost` lines
errorLineIs(run, start, lost) ==
    parser.err.line = (start - 1) + ParseAll(JoinNL(run), fields).err.line - lost

\* the run that failed is the one after those that gave a paragraph
errorInRun(lines, starts, k, lost) ==
    /\ k <= Len(starts)
    /\ errorLineIs(Run(lines, starts[k]), starts[k], lost)

\* C23: the line number of a syntax error is the 1-based number, counted
\* over the whole input, of the offending line, also when the error lies in
\* a second or later paragraph and when blank lines precede it.
C23_ErrorLine ==
    SyntaxError =>
        errorInRun(Split(input), RunStarts(Split(input)), Len(paragraphs) + 1, 0)

----------------------------------------------------------------------------
(* Claims about the position a signature-list error names.                 *)

\* the first line that is not blank and is no signature of the digest size
FirstMalformed(lines, digestSize) ==
    Min({ i \in 1..Len(lines) :
            ~IsBlank(lines[i]) /\ ~parseIndexSignature(lines[i], digestSize).ok })

\* the position of line i among the lines that are not blank
AmongNonBlank(lines, i) == Cardinality({ j \in 1..i : ~IsBlank(lines[j]) })

\* C24: when ParseIndexSignatures fails, the number in its error is the
\* 1-based position of the malformed line among the lines of the value that
\* are not blank.
C24_SignatureErrorPosition ==
    (mode = "sig" /\ calls > 0 /\ err # NoErr) =>
        err.line = AmongNonBlank(Split(Get(prev, MD5Sum)),
                                 FirstMalformed(Split(Get(prev, MD5Sum)),
                                                Len(batch[1].Checksum)))

----------------------------------------------------------------------------
(* Claims about what reading the existing index leads to.                  *)

\* one pass was made, with paragraphs to add
Passed == mode = "pass" /\ calls = 1 /\ Len(batch) > 0

\* the blob was missing and the read met no other error: the pass went on
\* from an empty sequence, and completed unless a later stage failed
missingIsEmpty(d, fault) ==
    /\ log[1].stage # "download"
    /\ IndexKey \in DOMAIN bucket =>
           ParseAll(bucket[IndexKey], ControlFields) = [err |-> NoErr, paragraphs |-> d.packages]
    /\ (d.err = NoErr /\ fault = "none" /\ \A k \in SumFields : Get(prev, k) # BadList) =>
           err = NoErr /\ IndexKey \in DOMAIN bucket

\* the pass returned an error and left the bucket and the Release alone
abortedAtRead ==
    /\ err # NoErr
    /\ log[1].stage = "download"
    /\ bucket = before
    /\ release = prev

\* the existing index is read with an error other than NotFound, or does
\* not parse
unreadable(fault) ==
    \/ fault = "read"
    \/ IndexKey \in DOMAIN before /\ ParseAll(before[IndexKey], ControlFields).err # NoErr

\* C25: when the index blob does not exist, appendToIndex goes on from an
\* empty sequence and the index it stores holds the deduplicated new
\* paragraphs; on any other read error and on a parse error of the existing
\* index it returns an error before an index blob is written and before the
\* Release paragraph is changed.
C25_ExistingIndexRead ==
    Passed =>
        /\ (IndexKey \notin DOMAIN before /\ log[1].fault # "read") =>
               missingIsEmpty(dedupePackages(batch), log[1].fault)
        /\ unreadable(log[1].fault) => abortedAtRead

\* the stored index held a comment and the pass was aborted
C25_Witness ==
    /\ Passed
    /\ IndexKey \in DOMAIN before
    /\ log[1].fault = "none"
    /\ err.kind = "comments not allowed"
    /\ abortedAtRead

----------------------------------------------------------------------------
(* Two upload commands running at once on the same distribution.  Each     *)
(* command is cut at its blob operations: the read of Release, the write   *)
(* of the package to the pool, the read of the index, the writes of the    *)
(* plain and of the gzip index, and the write of Release.  What a command  *)
(* holds in memory between two operations is its entry of procs.           *)

\* d.deb: package d for architecture x
DebX2 == LocalFile(<<"d", ".", "d", "e", "b">>,
              <<"P", "a", "c", "k", "a", "g", "e", ":", SP, "d", NL,
                "V", "e", "r", "s", "i", "o", "n", ":", SP, "1", NL,
                "A", "r", "c", "h", "i", "t", "e", "c", "t", "u",
                "r", "e", ":", SP, "x", NL>>, <<"D", "D", "D">>, <<>>)

Procs == {1, 2}

Other(i) == 3 - i

\* the package the second command uploads next to the a.deb of the first
RaceFiles == {DebX2, DebY}

RaceBuckets == {NoBlobs, Initialised}

RaceNow == <<"T", "u", "e", SP, "3">>

\* A command that was not started yet
NotStarted(file) ==
    [pc |-> "start", file |-> file, alone |-> TRUE, err |-> NoErr, release |-> <<>>,
     bin |-> NoAdditions, packages |-> <<>>,
     plain |-> [err |-> NoErr, bucket |-> NoBlobs, hashes |-> NoHashes]]

\* the architecture of the package the command uploads, and its index
ArchOf(p) == CHOOSE a \in DOMAIN p.bin : TRUE
KeyOf(p) == binaryIndexPath(TheComp, ArchOf(p))

\* no command is between its first and its last blob operation
Resting(p) == p.pc \in {"start", "done", "failed"}

Failed(p, e) == [p EXCEPT !.pc = "failed", !.err = e]

RaceInit ==
    /\ mode = "race"
    /\ bucket \in RaceBuckets
    /\ before = bucket
    /\ \E file \in RaceFiles : procs = <<NotStarted(DebX), NotStarted(file)>>
    /\ packages = <<>>
    /\ deduped = [err |-> NoErr, packages |-> <<>>]
    /\ log = <<>>
    /\ CodecIdle
    /\ SigIdle

\* cmdUpload of command i up to the path loop: Release is read and the
\* component added to the paragraph held in memory
ReadReleaseOf(i, d) ==
    /\ procs' = [procs EXCEPT ![i] =
                    IF d.err # NoErr THEN Failed(@, d.err)
                    ELSE [@ EXCEPT !.pc = "pool", !.alone = Resting(procs[Other(i)]),
                                   !.release = addToTokenSet(d.para, Components,
                                                             TheComp.name)]]
    /\ UNCHANGED bucket

ReadRelease(i) ==
    /\ mode = "race"
    /\ procs[i].pc = "start"
    /\ ReadReleaseOf(i, downloadReleaseIndex(bucket, TheComp.dist, NoFault))
    /\ UNCHANGED <<mode, packages, deduped, before, log>>
    /\ UNCHANGED codecVars
    /\ UNCHANGED sigVars

\* the path loop of command i: its package goes to the pool
UploadPackageOf(i, l) ==
    /\ procs' = [procs EXCEPT ![i] =
                    IF l.err # NoErr THEN Failed(@, l.err)
                    ELSE [@ EXCEPT !.pc = "read", !.release = l.release, !.bin = l.bin]]
    /\ bucket' = l.bucket

UploadPackage(i) ==
    /\ mode = "race"
    /\ procs[i].pc = "pool"
    /\ UploadPackageOf(i, pathsLoop(bucket, procs[i].release, <<procs[i].file>>,
                                    NoAdditions, <<>>, NoFault))
    /\ UNCHANGED <<mode, packages, deduped, before, log>>
    /\ UNCHANGED codecVars
    /\ UNCHANGED sigVars

\* appendToIndex of command i up to uploadIndex: the index is read, the
\* package appended and the packages deduplicated
ReadIndexOf(i, existing, d) ==
    /\ procs' = [procs EXCEPT ![i] =
                    IF existing.err # NoErr THEN Failed(@, existing.err)
                    ELSE IF d.err # NoErr THEN Failed(@, d.err)
                    ELSE [@ EXCEPT !.pc = "plain", !.packages = d.packages]]
    /\ UNCHANGED bucket

ReadIndexGot(i, existing) ==
    ReadIndexOf(i, existing,
                dedupePackages(existing.paragraphs \o procs[i].bin[ArchOf(procs[i])]))

ReadIndex(i) ==
    /\ mode = "race"
    /\ procs[i].pc = "read"
    /\ ReadIndexGot(i, downloadIndex(bucket, KeyOf(procs[i]), ControlFields, "none"))
    /\ UNCHANGED <<mode, packages, deduped, before, log>>
    /\ UNCHANGED codecVars
    /\ UNCHANGED sigVars

\* uploadIndex of command i: the plain index is written
WritePlainOf(i, u) ==
    /\ procs' = [procs EXCEPT ![i] =
                    IF u.err # NoErr THEN Failed(@, u.err)
                    ELSE [@ EXCEPT !.pc = "gzip", !.plain = u]]
    /\ bucket' = u.bucket

WritePlain(i) ==
    /\ mode = "race"
    /\ procs[i].pc = "plain"
    /\ WritePlainOf(i, upload(bucket, KeyOf(procs[i]), Save(procs[i].packages), FALSE))
    /\ UNCHANGED <<mode, packages, deduped, before, log>>
    /\ UNCHANGED codecVars
    /\ UNCHANGED sigVars

\* uploadIndex of command i: the gzip index is written; then the rest of
\* appendToIndex and of cmdUpload up to uploadReleaseIndex, which work on
\* the Release held in memory
WriteGzipOf(i, a) ==
    /\ procs' = [procs EXCEPT ![i] =
                    IF a.err # NoErr THEN Failed(@, a.err)
                    ELSE [@ EXCEPT !.pc = "release",
                                   !.release = Set(a.release, Date, RaceNow)]]
    /\ bucket' = a.bucket

WriteGzip(i) ==
    /\ mode = "race"
    /\ procs[i].pc = "gzip"
    /\ WriteGzipOf(i, appendUploaded(
                          uploadedGzip(procs[i].plain,
                                       upload(bucket, KeyOf(procs[i]) \o gzipExtension,
                                              gzip(Save(procs[i].packages)), FALSE)),
                          procs[i].release,
                          TrimPrefix(KeyOf(procs[i]), distDir(TheComp.dist) \o <<"/">>)))
    /\ UNCHANGED <<mode, packages, deduped, before, log>>
    /\ UNCHANGED codecVars
    /\ UNCHANGED sigVars

\* uploadReleaseIndex of command i, run without a key
WriteReleaseOf(i, r) ==
    /\ procs' = [procs EXCEPT ![i] =
                    IF r.err # NoErr THEN Failed(@, r.err) ELSE [@ EXCEPT !.pc = "done"]]
    /\ bucket' = r.bucket

WriteRelease(i) ==
    /\ mode = "race"
    /\ procs[i].pc = "release"
    /\ WriteReleaseOf(i, uploadReleaseIndex(bucket, TheComp.dist, procs[i].release, <<>>,
                                            NoFault))
    /\ UNCHANGED <<mode, packages, deduped, before, log>>
    /\ UNCHANGED codecVars
    /\ UNCHANGED sigVars

RaceNext ==
    \E i \in Procs :
        \/ ReadRelease(i)
        \/ UploadPackage(i)
        \/ ReadIndex(i)
        \/ WritePlain(i)
        \/ WriteGzip(i)
        \/ WriteRelease(i)

RaceSpec == RaceInit /\ [][RaceNext]_vars

(* Concurrent writers.                                                     *)

\* both commands returned nil
BothDone == mode = "race" /\ \A i \in Procs : procs[i].pc = "done"

\* the two commands ran one after the other
OneAfterTheOther == \A i \in Procs : procs[i].alone

\* the stored index of p's architecture holds the package p uploaded
IndexHolds(b, p) ==
    /\ KeyOf(p) \in DOMAIN b
    /\ \E k \in 1..Len(ParseAll(b[KeyOf(p)], ControlFields).paragraphs) :
           Get(ParseAll(b[KeyOf(p)], ControlFields).paragraphs[k], Package)
               = Get(p.bin[ArchOf(p)][1], Package)

\* the list `name` of the stored Release has an entry for the blob under
\* key that gives the size and the digest of what is stored there
Listed(b, name, key, digest) ==
    /\ key \in DOMAIN b
    /\ \E k \in 1..Len(ParseIndexSignatures(Get(StoredRelease(b), name), 1).sigs) :
           ParseIndexSignatures(Get(StoredRelease(b), name), 1).sigs[k]
               = IndexSignature(DistPath(key), digest, Len(b[key]))

\* the stored Release lists the plain and the gzip index of p in each list
\* and names p's architecture
ReleaseHolds(b, p) ==
    /\ \A key \in {KeyOf(p), KeyOf(p) \o gzipExtension} :
           /\ key \in DOMAIN b
           /\ Listed(b, MD5Sum, key, indexHashes(b[key]).md5)
           /\ Listed(b, SHA1, key, indexHashes(b[key]).sha1)
           /\ Listed(b, SHA256, key, indexHashes(b[key]).sha256)
    /\ \E k \in 1..Len(stringsFields(Get(StoredRelease(b), Architectures))) :
           stringsFields(Get(StoredRelease(b), Architectures))[k] = ArchOf(p)

Kept(b, p) == IndexHolds(b, p) /\ ReleaseHolds(b, p)

\* C26: when the two upload commands ran one after the other and both
\* returned nil, the stored index and the stored Release hold what each of
\* them wrote; run at once they can both return nil and lose an update
C26_SequentialKeepsBoth ==
    (BothDone /\ OneAfterTheOther) => \A i \in Procs : Kept(bucket, procs[i])

\* both commands returned nil, they overlapped, and what one of them wrote
\* is missing from the stored index or from the stored Release
C26_Witness ==
    /\ BothDone
    /\ ~OneAfterTheOther
    /\ \E i \in Procs : ~Kept(bucket, procs[i])

(* Sticky parser errors.                                                   *)

\* the parser holds an error: Err() does not return nil
Erred(p) == p.err # NoErr

\* a call made on a parser that holds an error returns false, leaves Err()
\* as it was and hands no paragraph to the caller
stickyCall(p, q, r, got, got_) == Erred(p) => (r = "false" /\ q.err = p.err /\ got_ = got)

\* a parser that holds an error has an empty Paragraph()
nothingExposed(p) == Erred(p) => Paragraph(p) = <<>>

\* C27: once Next or Single has recorded an error, every later call of Next
\* and of Single returns false, Err() keeps returning the first error and
\* Paragraph() is empty, also when the error was found after fields of the
\* same paragraph had been parsed
C27_StickyErrors ==
    [][(ParserNext \/ ParserSingle) =>
           /\ stickyCall(parser, parser', ret', paragraphs, paragraphs')
           /\ nothingExposed(parser')]_vars

\* an error was recorded on the second line of the first paragraph, after
\* the field of its first line had been parsed
C27_Witness ==
    /\ mode = "codec"
    /\ Erred(parser)
    /\ parser.err.line = 2
    /\ paragraphs = <<>>
    /\ ret = "false"
    /\ Len(Split(input)) >= 2
    /\ ~OnlyBlanks(Split(input)[1])
    /\ IndexByte(Split(input)[1], ":") > 0
    /\ Paragraph(parser) = <<>>

(* The stored Release against the stored indices.                          *)

\* the key of the blob a list entry of Release names
KeyNamed(sig) == distDir(TheComp.dist) \o <<"/">> \o sig.Filename

\* the entries of the list `name` of the stored Release, when it parses
StoredList(b, name) ==
    IF ParseIndexSignatures(Get(StoredRelease(b), name), 1).err = NoErr
    THEN ParseIndexSignatures(Get(StoredRelease(b), name), 1).sigs
    ELSE <<>>

\* each entry of the list that names a stored blob gives its size and digest
listMatches(b, sigs, digest(_)) ==
    \A k \in 1..Len(sigs) :
        KeyNamed(sigs[k]) \in DOMAIN b =>
            /\ sigs[k].Size = Len(b[KeyNamed(sigs[k])])
            /\ sigs[k].Checksum = digest(b[KeyNamed(sigs[k])])

md5Of(content) == indexHashes(content).md5
sha1Of(content) == indexHashes(content).sha1
sha256Of(content) == indexHashes(content).sha256

releaseMatches(b) ==
    /\ listMatches(b, StoredList(b, MD5Sum), md5Of)
    /\ listMatches(b, StoredList(b, SHA1), sha1Of)
    /\ listMatches(b, StoredList(b, SHA256), sha256Of)

\* C28: whenever no command is running, also after an upload that failed
\* part-way, every entry of the MD5Sum, SHA1 and SHA256 lists of the stored
\* Release that names a stored index blob has its size and digest
C28_ReleaseMatchesIndices == mode = "upload" => releaseMatches(bucket)

(* Packages for every architecture.                                        *)

\* the Packages index of arch stored in b lists the package named name
IndexLists(b, arch, name) ==
    /\ binaryIndexPath(TheComp, arch) \in DOMAIN b
    /\ \E k \in 1..Len(ParseAll(b[binaryIndexPath(TheComp, arch)], ControlFields).paragraphs) :
           Get(ParseAll(b[binaryIndexPath(TheComp, arch)], ControlFields).paragraphs[k],
               Package) = name

\* the architectures the stored Release names
StoredArchitectures(b) ==
    { stringsFields(Get(StoredRelease(b), Architectures))[k] :
          k \in 1..Len(stringsFields(Get(StoredRelease(b), Architectures))) }

\* the last upload returned nil and c.deb, of architecture all, was among
\* its paths
UploadedAll ==
    /\ mode = "upload"
    /\ calls = 1
    /\ err = NoErr
    /\ \E k \in 1..Len(batch) : batch[k] = DebAll

\* C29: after cmdUpload succeeds, a package of architecture all is listed
\* in the Packages index of every architecture the stored Release names,
\* and in at least one index, whatever the order of the paths and the
\* Architectures the Release had before
C29_AllReachesEveryArchitecture ==
    UploadedAll =>
        /\ \A arch \in StoredArchitectures(bucket) : IndexLists(bucket, arch, <<"c">>)
        /\ \E arch \in {<<"x">>, <<"y">>, <<"a", "l", "l">>} : IndexLists(bucket, arch, <<"c">>)

(* The signed forms of Release.                                            *)

\* the signed blob under key, if stored, is what signing the stored Release
\* with a key gives
signedFrom(b, key, sign(_, _)) ==
    key \in DOMAIN b =>
        /\ indexPath(TheComp.dist) \in DOMAIN b
        /\ \E keyID \in KeyIDs \ {<<>>} : b[key] = sign(b[indexPath(TheComp.dist)], keyID)

signedTrack(b) ==
    /\ signedFrom(b, signedIndexPath(TheComp.dist), clearSign)
    /\ signedFrom(b, indexSignaturePath(TheComp.dist), detachSign)

\* the blob under key is stored in both buckets with the same bytes, or in
\* neither
sameBlob(b, c, key) ==
    /\ key \in DOMAIN b <=> key \in DOMAIN c
    /\ key \in DOMAIN b => b[key] = c[key]

\* a command run without a key wrote neither signed blob
keylessWritesNone ==
    (calls = 1 /\ log[1].keyID = <<>>) =>
        /\ sameBlob(before, bucket, signedIndexPath(TheComp.dist))
        /\ sameBlob(before, bucket, indexSignaturePath(TheComp.dist))

\* C30: after any sequence of completed commands, run with or without a key
\* and with or without a failing signing step, a stored InRelease or
\* Release.gpg is the signature of the bytes stored as Release; a command
\* run without a key writes neither
C30_SignedTrackRelease == mode = "upload" => (signedTrack(bucket) /\ keylessWritesNone)

====
